---- MODULE Spec2Model ----
(***************************************************************************)
(* A model of pyeagle: the document parser (pyeagle.open and the from_xml  *)
(* constructors of pyeagle/types.py) and the geometry container            *)
(* (pyeagle/geometry.py).                                                  *)
(*                                                                         *)
(* A document is a tree of nodes; a node is a record of its attributes and *)
(* of the sequences of its child nodes, in document order.  Every entity   *)
(* the parser builds carries an id: the place of its construction (the     *)
(* constructor and the loop indices), which stands for the identity of the *)
(* Python object.  Two entity records are the same object iff their ids    *)
(* are equal.                                                              *)
(***************************************************************************)
EXTENDS Integers, Sequences, FiniteSets, TLC

VARIABLES
    doc,            \* the parse tree handed to pyeagle.open
    pc,             \* the position of the parse
    cls,            \* the class pyeagle.open dispatched to
    outcome,        \* "running", "returned" or the name of the exception raised
    result,         \* the entity returned to the caller
    layers,         \* locals of from_drawing_xml
    settings,
    grid,
    packages,       \* locals of Library.from_xml
    symbols,
    device_sets,
    classes,        \* locals of Schematic/Board.from_drawing_xml
    libraries,
    parts,
    sheets,
    design_rules,
    autorouter_rules,
    geom,           \* a Geometry container built by a caller
    bbox,           \* the last value Geometry.bounding_box returned
    rend,           \* the SVGRenderers built over geom and layers, one per caller
    calls,          \* make_svg_doc of each renderer: its position, locals and result
    answer,         \* the last method called on its own, and what it gave
    entity          \* the entity a caller holds for to_xml or save

vars == <<doc, pc, cls, outcome, result, layers, settings, grid, packages,
          symbols, device_sets, classes, libraries, parts, sheets,
          design_rules, autorouter_rules, geom, bbox, rend, calls, answer,
          entity>>

parseVars == <<doc, pc, cls, outcome, result, layers, settings, grid, packages,
               symbols, device_sets, classes, libraries, parts, sheets,
               design_rules, autorouter_rules>>

geomVars == <<geom, bbox>>

renderVars == <<rend, calls, answer, entity>>

---------------------------------------------------------------------------
(* Values *)

\* Python's None, where a string may stand
None == "None"

\* Python's None, where an entity may stand
NoneObject == [cls |-> "NoneType"]

\* an attribute the node does not carry
NoAttr == "NoAttr"

\* the same, where the value is a string of characters
NoChars == <<NoAttr>>

\* the names the documents use
Names == {"A", "B"}

\* the most child nodes of one kind under one parent
MaxNodes == 2

\* the most library / schematic / board tags under one drawing
MaxTags == 2

SeqsUpTo(S, n) == UNION {[1..k -> S] : k \in 0..n}

Max(a, b) == IF a >= b THEN a ELSE b

Min(a, b) == IF a <= b THEN a ELSE b

\* int(s) on a string of characters: ValueError unless all are digits
Digits == <<"0", "1", "2", "3", "4", "5", "6", "7", "8", "9">>

IsDigit(c) == \E d \in 1..Len(Digits) : Digits[d] = c

DigitValue(c) == (CHOOSE d \in 1..Len(Digits) : Digits[d] = c) - 1

RECURSIVE ParseDigits(_)
ParseDigits(cs) ==
    IF cs = <<>> THEN 0
    ELSE 10 * ParseDigits(SubSeq(cs, 1, Len(cs) - 1)) + DigitValue(cs[Len(cs)])

IntOk(cs) == cs # <<>> /\ \A i \in 1..Len(cs) : IsDigit(cs[i])

\* s[n:]
StrFrom(cs, n) == SubSeq(cs, n + 1, Len(cs))

---------------------------------------------------------------------------
(* dict / OrderedDict: a sequence of [k, v] entries in insertion order;    *)
(* assigning to a key that is there replaces its value in place.           *)

DictHas(d, k) == \E i \in 1..Len(d) : d[i].k = k

DictIndex(d, k) == CHOOSE i \in 1..Len(d) : d[i].k = k

DictGet(d, k) == d[DictIndex(d, k)].v

\* d.setdefault(k, v): the first entity of a key stays
DictPutFirst(d, k, v) ==
    IF DictHas(d, k) THEN d ELSE Append(d, [k |-> k, v |-> v])

DictPut(d, k, v) ==
    IF DictHas(d, k)
    THEN [d EXCEPT ![DictIndex(d, k)] = [k |-> k, v |-> v]]
    ELSE Append(d, [k |-> k, v |-> v])

DictKeys(d) == {d[i].k : i \in 1..Len(d)}

\* for e in es: d[e.name] = e
RECURSIVE DictByName(_)
DictByName(es) ==
    IF es = <<>> THEN <<>>
    ELSE LET n == Len(es)
         IN DictPut(DictByName(SubSeq(es, 1, n - 1)), es[n].name, es[n])

---------------------------------------------------------------------------
(* pyeagle/geometry.py: the primitives.  Coordinates and sizes are whole   *)
(* millimetres; bounding boxes are in micrometres, so that the halves and  *)
(* the constants 0.508, 2.54, 0.25 and 0.55 of the code are exact.  A box  *)
(* is <<<<startx, starty>>, <<endx, endy>>>>.                              *)

Um(v) == 1000 * v

HalfUm(v) == 500 * v

\* Pin.pin_origin_radius = 0.508
PinOriginRadius == 508

\* grid_scale = 2.54 of Pin.calculate_line_endpoint
GridScale == 2540

\* Text.font_baseline_offset = 0.25, per millimetre of size
FontBaselineOffset == 250

\* Text.font_aspect_ratio = 0.55, per millimetre of size and character
FontAspectRatio == 550

\* Wire.bounding_box
WireBoundingBox(p) ==
    <<<<Um(Min(p.x1, p.x2)) - HalfUm(p.width), Um(Min(p.y1, p.y2)) - HalfUm(p.width)>>,
      <<Um(Max(p.x1, p.x2)) + HalfUm(p.width), Um(Max(p.y1, p.y2)) + HalfUm(p.width)>>>>

\* SMD.bounding_box
SMDBoundingBox(p) ==
    <<<<Um(p.x) - HalfUm(p.dx), Um(p.y) - HalfUm(p.dy)>>,
      <<Um(p.x) + HalfUm(p.dx), Um(p.y) + HalfUm(p.dy)>>>>

\* Text.calculate_size(scale=1) and Text.bounding_box
TextWidth(p) == p.size * FontAspectRatio * Len(p.s)

TextBoundingBox(p) ==
    <<<<Um(p.x), Um(p.y) - Um(p.size) + FontBaselineOffset * p.size>>,
      <<Um(p.x) + TextWidth(p), Um(p.y) + FontBaselineOffset * p.size>>>>

\* Rectangle.bounding_box
RectangleBoundingBox(p) ==
    <<<<Um(Min(p.x1, p.x2)), Um(Min(p.y1, p.y2))>>,
      <<Um(Max(p.x1, p.x2)), Um(Max(p.y1, p.y2))>>>>

\* Pad.bounding_box
PadBoundingBox(p) ==
    <<<<Um(p.x) - HalfUm(p.diameter), Um(p.y) - HalfUm(p.diameter)>>,
      <<Um(p.x) + HalfUm(p.diameter), Um(p.y) + HalfUm(p.diameter)>>>>

\* Hole.bounding_box
HoleBoundingBox(p) ==
    <<<<Um(p.x) - HalfUm(p.drill), Um(p.y) - HalfUm(p.drill)>>,
      <<Um(p.x) + HalfUm(p.drill), Um(p.y) + HalfUm(p.drill)>>>>

\* Circle.bounding_box
CircleBoundingBox(p) ==
    LET margin == Um(p.radius) + HalfUm(p.width)
    IN <<<<Um(p.x) - margin, Um(p.y) - margin>>, <<Um(p.x) + margin, Um(p.y) + margin>>>>

\* Polygon.bounding_box: min() and max() of no vertices raise ValueError
SeqMin(f) == CHOOSE v \in {f[i] : i \in DOMAIN f} : \A i \in DOMAIN f : v <= f[i]

SeqMax(f) == CHOOSE v \in {f[i] : i \in DOMAIN f} : \A i \in DOMAIN f : v >= f[i]

PolygonBoundingBox(p) ==
    IF p.vertices = <<>> THEN <<"ValueError">>
    ELSE LET xs == [i \in DOMAIN p.vertices |-> Um(p.vertices[i][1])]
             ys == [i \in DOMAIN p.vertices |-> Um(p.vertices[i][2])]
         IN <<<<SeqMin(xs) - HalfUm(p.width), SeqMin(ys) - HalfUm(p.width)>>,
              <<SeqMax(xs) + HalfUm(p.width), SeqMax(ys) + HalfUm(p.width)>>>>

\* Pin.calculate_line_endpoint
PinLength(p) ==
    GridScale * (CASE p.length = "point" -> 0
                   [] p.length = "short" -> 1
                   [] p.length = "middle" -> 2
                   [] p.length = "long" -> 3)

PinLineEndpoint(p) ==
    CASE p.rotate = 0 -> <<Um(p.x) + PinLength(p), Um(p.y)>>
      [] p.rotate = 90 -> <<Um(p.x), Um(p.y) + PinLength(p)>>
      [] p.rotate = 180 -> <<Um(p.x) - PinLength(p), Um(p.y)>>
      [] p.rotate = 270 -> <<Um(p.x), Um(p.y) - PinLength(p)>>
      [] OTHER -> <<"UnboundLocalError">>

\* Pin.bounding_box
PinBoundingBox(p) ==
    LET end == PinLineEndpoint(p)
        r == PinOriginRadius
    IN CASE p.rotate = 0 ->
              <<<<Um(p.x) - r, Um(p.y) - r>>, <<end[1], end[2] + r>>>>
         [] p.rotate = 90 ->
              <<<<Um(p.x) - r, Um(p.y) - r>>, <<end[1] + Um(p.x) - r, end[2]>>>>
         [] p.rotate = 180 ->
              <<<<end[1], end[2] - r>>, <<Um(p.x) + r, Um(p.y) + r>>>>
         [] p.rotate = 270 ->
              <<<<end[1] - r, end[2]>>, <<Um(p.x) + r, Um(p.y) + r>>>>
         [] OTHER -> <<"UnboundLocalError">>

\* primitive.bounding_box(), by the class of the primitive
PrimitiveBoundingBox(p) ==
    CASE p.kind = "wire" -> WireBoundingBox(p)
      [] p.kind = "smd" -> SMDBoundingBox(p)
      [] p.kind = "text" -> TextBoundingBox(p)
      [] p.kind = "rectangle" -> RectangleBoundingBox(p)
      [] p.kind = "polygon" -> PolygonBoundingBox(p)
      [] p.kind = "hole" -> HoleBoundingBox(p)
      [] p.kind = "pad" -> PadBoundingBox(p)
      [] p.kind = "circle" -> CircleBoundingBox(p)
      [] p.kind = "pin" -> PinBoundingBox(p)

\* an exception is a tuple of its name; a box is a pair of points
IsBox(b) == Len(b) = 2

\* Geometry.bounding_box: the loop over the first n primitives, from the
\* seed startx = starty = endx = endy = 0; an exception of a primitive's
\* bounding_box leaves the loop
RECURSIVE GeometryBoundingBoxUpTo(_, _)
GeometryBoundingBoxUpTo(prims, n) ==
    IF n = 0 THEN <<<<0, 0>>, <<0, 0>>>>
    ELSE LET acc == GeometryBoundingBoxUpTo(prims, n - 1)
             b == PrimitiveBoundingBox(prims[n])
         IN IF ~IsBox(acc) THEN acc
            ELSE IF ~IsBox(b) THEN b
            ELSE <<<<Min(acc[1][1], b[1][1]), Min(acc[1][2], b[1][2])>>,
                   <<Max(acc[2][1], b[2][1]), Max(acc[2][2], b[2][2])>>>>

\* the reduction seeded by the primitives themselves, not by the origin
GeometryBoundingBoxTight(prims) ==
    LET boxes == [i \in 1..Len(prims) |-> PrimitiveBoundingBox(prims[i])]
        bad == {i \in 1..Len(prims) : ~IsBox(boxes[i])}
    IN IF prims = <<>> THEN <<<<0, 0>>, <<0, 0>>>>
       ELSE IF bad # {} THEN boxes[CHOOSE i \in bad : \A j \in bad : i <= j]
       ELSE <<<<SeqMin([i \in 1..Len(prims) |-> boxes[i][1][1]]),
                SeqMin([i \in 1..Len(prims) |-> boxes[i][1][2]])>>,
              <<SeqMax([i \in 1..Len(prims) |-> boxes[i][2][1]]),
                SeqMax([i \in 1..Len(prims) |-> boxes[i][2][2]])>>>>

\* the reduction stopping one primitive short
GeometryBoundingBoxShort(prims) ==
    IF prims = <<>> THEN GeometryBoundingBoxUpTo(prims, 0)
    ELSE GeometryBoundingBoxUpTo(prims, Len(prims) - 1)

GeometryBoundingBox(prims) == GeometryBoundingBoxUpTo(prims, Len(prims))

---------------------------------------------------------------------------
(* pyeagle/geometry.py: from_xml of the primitives the documents hold, and *)
(* Geometry.geometry_from_xml                                              *)

\* Wire.from_xml
WireFromXml(n) ==
    [kind |-> "wire", x1 |-> n.x1, y1 |-> n.y1, x2 |-> n.x2, y2 |-> n.y2,
     width |-> n.width, layer |-> n.layer]

\* Pad.from_xml: diameter defaults to 0
PadFromXml(n) ==
    [kind |-> "pad", name |-> n.name, x |-> n.x, y |-> n.y, drill |-> n.drill,
     diameter |-> IF n.diameter = NoAttr THEN 0 ELSE n.diameter]

\* SMD.from_xml
SMDFromXml(n) ==
    [kind |-> "smd", name |-> n.name, x |-> n.x, y |-> n.y, dx |-> n.dx,
     dy |-> n.dy, layer |-> n.layer]

\* Text.from_xml
TextFromXml(n) ==
    [kind |-> "text", s |-> n.text, x |-> n.x, y |-> n.y, size |-> n.size,
     layer |-> n.layer]

\* Rectangle.from_xml
RectangleFromXml(n) ==
    [kind |-> "rectangle", x1 |-> n.x1, y1 |-> n.y1, x2 |-> n.x2, y2 |-> n.y2,
     layer |-> n.layer]

\* Polygon.from_xml
PolygonFromXml(n) ==
    [kind |-> "polygon", width |-> n.width, layer |-> n.layer,
     vertices |-> n.vertices]

\* Hole.from_xml
HoleFromXml(n) == [kind |-> "hole", x |-> n.x, y |-> n.y, drill |-> n.drill]

\* Pin.from_xml: rotate = int(rot[1:]) of rot, 'R0' when absent; length
\* defaults to middle; visible unless the attribute is 'off'
PinRot(n) == IF n.rot = NoChars THEN <<"R", "0">> ELSE n.rot

PinFromXml(n) ==
    [kind |-> "pin", name |-> n.name, x |-> n.x, y |-> n.y,
     length |-> IF n.length = NoAttr THEN "middle" ELSE n.length,
     rotate |-> ParseDigits(StrFrom(PinRot(n), 1)),
     visible |-> (n.visible # "off")]

\* cls.from_xml(subnode), by the class the tag is paired with
PrimitiveFromXml(n) ==
    CASE n.kind = "wire" -> WireFromXml(n)
      [] n.kind = "pad" -> PadFromXml(n)
      [] n.kind = "smd" -> SMDFromXml(n)
      [] n.kind = "text" -> TextFromXml(n)
      [] n.kind = "rectangle" -> RectangleFromXml(n)
      [] n.kind = "polygon" -> PolygonFromXml(n)
      [] n.kind = "hole" -> HoleFromXml(n)
      [] n.kind = "pin" -> PinFromXml(n)

\* the (class, tag) table of Geometry.geometry_from_xml, in its order
PrimitiveTags == <<"wire", "smd", "text", "rectangle", "polygon", "hole", "pad", "pin">>

\* [cls.from_xml(subnode) for subnode in node.xpath(tag)]
PrimitivesOfTag(nodes, tag) ==
    LET sel == SelectSeq(nodes, LAMBDA n : n.kind = tag)
    IN [i \in 1..Len(sel) |-> PrimitiveFromXml(sel[i])]

RECURSIVE GeometryFromXmlUpTo(_, _)
GeometryFromXmlUpTo(nodes, t) ==
    IF t = 0 THEN <<>>
    ELSE GeometryFromXmlUpTo(nodes, t - 1) \o PrimitivesOfTag(nodes, PrimitiveTags[t])

\* one pass over the children in document order, whatever their tag
GeometryFromXmlInDocumentOrder(nodes) ==
    LET sel == SelectSeq(nodes, LAMBDA n : \E t \in 1..Len(PrimitiveTags) :
                                              PrimitiveTags[t] = n.kind)
    IN [i \in 1..Len(sel) |-> PrimitiveFromXml(sel[i])]

GeometryFromXml(nodes) == GeometryFromXmlUpTo(nodes, Len(PrimitiveTags))

---------------------------------------------------------------------------
(* pyeagle/layers.py and the shared children of a drawing *)

\* Layer.from_xml
LayerFromXml(node) ==
    [cls |-> "Layer", number |-> node.number, name |-> node.name,
     color |-> node.color, visible |-> (node.visible = "yes"),
     active |-> (node.active = "yes")]

\* LayerSet.from_xml: layers[int(layer.number)] = layer
RECURSIVE LayerSetFromXml(_)
LayerSetFromXml(nodes) ==
    IF nodes = <<>> THEN <<>>
    ELSE LET n == Len(nodes)
             layer == LayerFromXml(nodes[n])
         IN DictPut(LayerSetFromXml(SubSeq(nodes, 1, n - 1)), layer.number, layer)

---------------------------------------------------------------------------
(* pyeagle/colors.py and the queries of pyeagle/layers.py *)

\* colors.eagle_to_rgb
EagleToRgb ==
    <<<<255, 255, 255>>, <<75, 75, 165>>, <<75, 165, 75>>, <<75, 165, 165>>,
      <<165, 75, 75>>, <<165, 75, 165>>, <<165, 165, 75>>, <<165, 165, 165>>,
      <<230, 230, 230>>, <<75, 75, 255>>, <<75, 255, 75>>, <<75, 255, 255>>,
      <<255, 75, 75>>, <<255, 75, 255>>, <<255, 255, 75>>, <<75, 75, 75>>>>

\* colors.default_color_rgb
DefaultColorRgb == <<165, 165, 165>>

\* colors.as_rgb: eagle_to_rgb[number], where a negative index counts from
\* the end of the list, and the default on IndexError
AsRgb(number) ==
    IF number >= 0 /\ number < Len(EagleToRgb) THEN EagleToRgb[number + 1]
    ELSE IF number < 0 /\ number >= -Len(EagleToRgb)
         THEN EagleToRgb[Len(EagleToRgb) + number + 1]
         ELSE DefaultColorRgb

\* colors.as_css: 'rgb(%d, %d, %d)'
AsCss(number) == <<"rgb">> \o AsRgb(number)

\* the None a function returns by falling off its end, where a color may stand
NoColor == <<"None">>

\* self.layers[number] of is_visible finds the layer (else KeyError)
LayerDefined(ls, number) == DictHas(ls, number)

\* is_visible with the active flag left out
IsVisibleNoActive(ls, number) == DictGet(ls, number).visible

\* LayerSet.is_visible, the layer being defined: layer.active and layer.visible
IsVisible(ls, number) ==
    LET layer == DictGet(ls, number) IN layer.active /\ layer.visible

\* get_css_color without the question whether the layer is visible
GetCssColorOfAny(ls, number) ==
    IF ~LayerDefined(ls, number) THEN <<"KeyError">>
    ELSE AsCss(DictGet(ls, number).color)

\* LayerSet.get_css_color: the KeyError of is_visible passes through; None
\* when the layer is not visible
GetCssColor(ls, number) ==
    IF ~LayerDefined(ls, number) THEN <<"KeyError">>
    ELSE IF IsVisible(ls, number) THEN AsCss(DictGet(ls, number).color)
    ELSE NoColor

\* dict.update(other)
RECURSIVE DictUpdate(_, _)
DictUpdate(d, other) ==
    IF other = <<>> THEN d
    ELSE LET n == Len(other)
         IN DictPut(DictUpdate(d, SubSeq(other, 1, n - 1)), other[n].k, other[n].v)

\* settings_from_xml: once per setting child, settings.update(node.attrib)
\* with the attributes of the settings node itself
RECURSIVE SettingsFromXmlUpTo(_, _)
SettingsFromXmlUpTo(node, n) ==
    IF n = 0 THEN <<>>
    ELSE DictUpdate(SettingsFromXmlUpTo(node, n - 1), node.attrib)

SettingsFromXml(node) == SettingsFromXmlUpTo(node, Len(node.settings))

\* grid_from_xml
GridFromXml(node) == node.attrib

---------------------------------------------------------------------------
(* pyeagle/types.py: the constructors *)

\* Package.__init__ / Package.from_xml
Package(id, name, primitives) ==
    [id |-> id, cls |-> "Package", name |-> name, primitives |-> primitives]

PackageFromXml(node, id) == Package(id, node.name, GeometryFromXml(node.prims))

\* Symbol.from_xml
SymbolFromXml(node, id) ==
    [id |-> id, cls |-> "Symbol", name |-> node.name,
     primitives |-> GeometryFromXml(node.prims)]

\* Gate.from_xml: the symbol reference is not resolved
\* Gate.from_xml resolving the symbol by its name on the spot
GateFromXmlResolving(node, id) ==
    [id |-> id, cls |-> "Gate", name |-> node.name,
     symbol |-> [cls |-> "Symbol", name |-> node.symbol],
     x |-> node.x, y |-> node.y]

GateFromXml(node, id) ==
    [id |-> id, cls |-> "Gate", name |-> node.name, symbol |-> NoneObject,
     x |-> node.x, y |-> node.y]

\* Attribute.from_xml
AttributeFromXml(node) ==
    [name |-> node.name, value |-> node.value, constant |-> None]

\* Technology.from_xml
TechnologyFromXml(node, id) ==
    [id |-> id, cls |-> "Technology", name |-> node.name,
     attributes |-> [i \in 1..Len(node.attributes) |->
                        AttributeFromXml(node.attributes[i])]]

\* Device.from_xml with the placeholder named after the package asked for
DevicePackageNamed(node, pkgs, id) ==
    IF node.package # NoAttr /\ DictHas(pkgs, node.package)
    THEN DictGet(pkgs, node.package)
    ELSE Package(<<"PlaceholderPackage">> \o Tail(id), node.package, <<>>)

\* Device.from_xml: packages[node.attrib['package']], and on KeyError (the
\* attribute or the key is missing) a fresh Package(name='')
DevicePackage(node, pkgs, id) ==
    IF node.package # NoAttr /\ DictHas(pkgs, node.package)
    THEN DictGet(pkgs, node.package)
    ELSE Package(<<"PlaceholderPackage">> \o Tail(id), "", <<>>)

DeviceFromXml(node, pkgs, id) ==
    [id |-> id, cls |-> "Device", name |-> node.name,
     package |-> DevicePackage(node, pkgs, id),
     technologies |-> DictByName(
        [k \in 1..Len(node.technologies) |->
            TechnologyFromXml(node.technologies[k], <<"Technology">> \o Tail(id) \o <<k>>)])]

\* DeviceSet.from_xml
DeviceSetGates(node, id) ==
    DictByName([j \in 1..Len(node.gates) |->
                  GateFromXml(node.gates[j], <<"Gate">> \o Tail(id) \o <<j>>)])

DeviceSetDevices(node, pkgs, id) ==
    DictByName([j \in 1..Len(node.devices) |->
                  DeviceFromXml(node.devices[j], pkgs, <<"Device">> \o Tail(id) \o <<j>>)])

DeviceSetFromXml(node, pkgs, id) ==
    [id |-> id, cls |-> "DeviceSet", name |-> node.name,
     prefix |-> node.prefix,
     gates |-> DeviceSetGates(node, id),
     devices |-> DeviceSetDevices(node, pkgs, id)]

\* Library.from_xml, the three loops; L numbers the library node
LibraryPackages(node, L) ==
    DictByName([i \in 1..Len(node.packages) |->
                  PackageFromXml(node.packages[i], <<"Package", L, i>>)])

LibrarySymbols(node, L) ==
    DictByName([i \in 1..Len(node.symbols) |->
                  SymbolFromXml(node.symbols[i], <<"Symbol", L, i>>)])

LibraryDeviceSets(node, pkgs, L) ==
    DictByName([i \in 1..Len(node.devicesets) |->
                  DeviceSetFromXml(node.devicesets[i], pkgs, <<"DeviceSet", L, i>>)])

\* Library.__init__
Library(L, name, pkgs, syms, dsets, lay, sett, grd) ==
    [id |-> <<"Library", L>>, cls |-> "Library", name |-> name,
     packages |-> pkgs, symbols |-> syms, device_sets |-> dsets,
     layers |-> lay, settings |-> sett, grid |-> grd]

\* Library.from_xml as one call (the embedded libraries of a schematic or board)
LibraryFromXml(node, L, lay, sett, grd) ==
    LET pkgs == LibraryPackages(node, L)
    IN Library(L, node.name, pkgs, LibrarySymbols(node, L),
               LibraryDeviceSets(node, pkgs, L), lay, sett, grd)

---------------------------------------------------------------------------
(* pyeagle/types.py: schematic entities *)

\* Part.from_xml: libraries[lib_name].device_sets[ds_name].devices[d_name];
\* each lookup raises KeyError when the key is missing
PartResolves(node, libs) ==
    /\ DictHas(libs, node.library)
    /\ DictHas(DictGet(libs, node.library).device_sets, node.deviceset)
    /\ DictHas(DictGet(DictGet(libs, node.library).device_sets, node.deviceset).devices,
               node.device)

\* Part.from_xml keeping a copy of the device set it resolved
PartFromXmlCopying(node, libs, id) ==
    LET lib == DictGet(libs, node.library)
        ds == DictGet(lib.device_sets, node.deviceset)
        device == DictGet(ds.devices, node.device)
    IN [id |-> id, cls |-> "Part", name |-> node.name, device |-> device,
        device_set |-> [ds EXCEPT !.id = <<"Copy">> \o ds.id], value |-> node.value,
        technology |-> IF node.technology = NoAttr THEN "" ELSE node.technology]

PartFromXml(node, libs, id) ==
    LET lib == DictGet(libs, node.library)
        ds == DictGet(lib.device_sets, node.deviceset)
        device == DictGet(ds.devices, node.device)
    IN [id |-> id, cls |-> "Part", name |-> node.name, device |-> device,
        device_set |-> ds, value |-> node.value,
        technology |-> IF node.technology = NoAttr THEN "" ELSE node.technology]

\* the loop over parts/part of Schematic.from_drawing_xml: the first part that
\* does not resolve raises KeyError out of the loop
SchematicPartsOk(nodes, libs) ==
    \A i \in 1..Len(nodes) : PartResolves(nodes[i], libs)

SchematicParts(nodes, libs) ==
    DictByName([i \in 1..Len(nodes) |-> PartFromXml(nodes[i], libs, <<"Part", i>>)])

\* Instance.from_xml: part and gate are kept as the strings of the node
InstanceRot(node) == IF node.rot = NoChars THEN <<"R", "0">> ELSE node.rot

InstanceMirrored(node) == InstanceRot(node)[1] = "M"

InstanceRotDigits(node) ==
    IF InstanceMirrored(node) THEN StrFrom(InstanceRot(node), 2)
    ELSE StrFrom(InstanceRot(node), 1)

InstanceOk(node) == IntOk(InstanceRotDigits(node))

InstanceFromXml(node, id) ==
    [id |-> id, cls |-> "Instance", part |-> node.part, gate |-> node.gate,
     x |-> node.x, y |-> node.y, smashed |-> (node.smashed = "yes"),
     mirrored |-> InstanceMirrored(node),
     rotate |-> ParseDigits(InstanceRotDigits(node))]

\* Segment.from_xml
SegmentFromXml(node, id) ==
    [id |-> id, cls |-> "Segment", primitives |-> GeometryFromXml(node.prims),
     pins |-> <<>>, junctions |-> node.junctions]

\* Net.from_xml
NetFromXml(node, id) ==
    [id |-> id, cls |-> "Net", name |-> node.name, class_ |-> node.class,
     segments |-> [k \in 1..Len(node.segments) |->
                     SegmentFromXml(node.segments[k], <<"Segment">> \o Tail(id) \o <<k>>)]]

\* Bus.from_xml
BusFromXml(node, id) ==
    [id |-> id, cls |-> "Bus", name |-> node.name,
     primitives |-> GeometryFromXml(node.prims),
     segments |-> [k \in 1..Len(node.segments) |->
                     SegmentFromXml(node.segments[k], <<"Segment">> \o Tail(id) \o <<k>>)]]

\* Sheet.from_xml: instances[(instance.part, instance.gate)] = instance
RECURSIVE SheetInstances(_, _)
SheetInstances(nodes, s) ==
    IF nodes = <<>> THEN <<>>
    ELSE LET n == Len(nodes)
             inst == InstanceFromXml(nodes[n], <<"Instance", s, n>>)
         IN DictPut(SheetInstances(SubSeq(nodes, 1, n - 1), s),
                    <<inst.part, inst.gate>>, inst)

SheetOk(node) == \A i \in 1..Len(node.instances) : InstanceOk(node.instances[i])

SheetFromXml(node, s) ==
    [id |-> <<"Sheet", s>>, cls |-> "Sheet",
     instances |-> SheetInstances(node.instances, s),
     nets |-> DictByName([i \in 1..Len(node.nets) |->
                            NetFromXml(node.nets[i], <<"Net", s, i>>)]),
     busses |-> DictByName([i \in 1..Len(node.busses) |->
                              BusFromXml(node.busses[i], <<"Bus", s, i>>)]),
     primitives |-> GeometryFromXml(node.prims)]

\* the loop over sheets/sheet of Schematic.from_drawing_xml; int() of an
\* instance's rotation raises ValueError out of the loop
SchematicSheetsOk(nodes) == \A s \in 1..Len(nodes) : SheetOk(nodes[s])

SchematicSheets(nodes) == [s \in 1..Len(nodes) |-> SheetFromXml(nodes[s], s)]

\* SignalClass.from_xml and the loop over classes/class
SignalClassFromXml(node) ==
    [cls |-> "SignalClass", number |-> node.number, name |-> node.name,
     width |-> node.width, drill |-> node.drill,
     clearance |-> IF node.clearance = <<>> THEN None ELSE node.clearance[1]]

RECURSIVE SchematicClasses(_)
SchematicClasses(nodes) ==
    IF nodes = <<>> THEN <<>>
    ELSE LET n == Len(nodes)
             c == SignalClassFromXml(nodes[n])
         IN DictPut(SchematicClasses(SubSeq(nodes, 1, n - 1)), c.number, c)

\* the loop over libraries/library of Schematic/Board.from_drawing_xml:
\* libraries[lib.name] = lib
EmbeddedLibraries(nodes, lay, sett, grd) ==
    DictByName([L \in 1..Len(nodes) |-> LibraryFromXml(nodes[L], L, lay, sett, grd)])

\* Schematic.__init__
Schematic(cl, libs, prts, shts, lay, sett, grd) ==
    [id |-> <<"Schematic">>, cls |-> "Schematic", classes |-> cl,
     libraries |-> libs, parts |-> prts, sheets |-> shts,
     layers |-> lay, settings |-> sett, grid |-> grd]

---------------------------------------------------------------------------
(* pyeagle/types.py: board entities *)

\* for n in nodes: params[n.name] = n.value
RECURSIVE ParamDict(_)
ParamDict(nodes) ==
    IF nodes = <<>> THEN <<>>
    ELSE LET n == Len(nodes)
         IN DictPut(ParamDict(SubSeq(nodes, 1, n - 1)), nodes[n].name, nodes[n].value)

\* DesignRules.from_xml
DesignRulesFromXml(node) ==
    [cls |-> "DesignRules", name |-> node.name, params |-> ParamDict(node.params)]

\* AutorouterRules.from_xml
AutorouterRulesFromXml(node) ==
    [cls |-> "AutorouterRules",
     passes |-> [i \in 1..Len(node.passes) |-> ParamDict(node.passes[i])]]

\* Board.__init__
Board(libs, dr, ar, lay, sett, grd) ==
    [id |-> <<"Board">>, cls |-> "Board", libraries |-> libs,
     design_rules |-> dr, autorouter_rules |-> ar,
     layers |-> lay, settings |-> sett, grid |-> grd]

---------------------------------------------------------------------------
(* pyeagle/__init__.py *)

\* len(root.xpath('drawing/' + tag))
TagCount(d, tag) ==
    IF d.ndrawing = 0 THEN 0
    ELSE CASE tag = "library" -> d.nlibrary
           [] tag = "schematic" -> d.nschematic
           [] tag = "board" -> d.nboard

\* open with the classes of schematic and board exchanged in its table
OpenClassExchanged(d) ==
    IF TagCount(d, "library") = 1 THEN "Library"
    ELSE IF TagCount(d, "schematic") = 1 THEN "Board"
    ELSE IF TagCount(d, "board") = 1 THEN "Schematic"
    ELSE None

\* the loop of open: the first of library, schematic, board that has exactly
\* one node selects the class; None when the loop falls through
OpenClass(d) ==
    IF TagCount(d, "library") = 1 THEN "Library"
    ELSE IF TagCount(d, "schematic") = 1 THEN "Schematic"
    ELSE IF TagCount(d, "board") = 1 THEN "Board"
    ELSE None

---------------------------------------------------------------------------
(* The documents.  A drawing node: how many drawing children the root has, *)
(* how many library, schematic and board children the drawing has, its     *)
(* lists of layers, settings and grid children (what xpath returns: empty *)
(* when the child is missing), and the first library, schematic and board  *)
(* node.  A board node holds its designrules and autorouter children the   *)
(* same way.                                                               *)

PadNode ==
    [kind |-> "pad", name |-> "1", x |-> 1, y |-> 1, drill |-> 1, diameter |-> NoAttr]

PinNode ==
    [kind |-> "pin", name |-> "P", x |-> 0, y |-> 0, length |-> NoAttr,
     rot |-> <<"R", "9", "0">>, visible |-> NoAttr]

WireNode ==
    [kind |-> "wire", x1 |-> 0, y1 |-> 0, x2 |-> 2, y2 |-> 0, width |-> 1, layer |-> 94]

GateNode(name, symbol) == [name |-> name, symbol |-> symbol, x |-> 0, y |-> 0]

DeviceNode(name, package, technologies) ==
    [name |-> name, package |-> package, technologies |-> technologies]

DeviceSetNode(name, prefix, gates, devices) ==
    [name |-> name, prefix |-> prefix, gates |-> gates, devices |-> devices]

LibraryNode(name, pkgs, syms, dsets) ==
    [name |-> name, packages |-> pkgs, symbols |-> syms, devicesets |-> dsets]

SchematicNode(libs, prts, shts) ==
    [classes |-> <<[number |-> 0, name |-> "default", width |-> 0, drill |-> 0,
                    clearance |-> <<>>]>>,
     libraries |-> libs, parts |-> prts, sheets |-> shts]

SheetNode(insts, nets, busses) ==
    [instances |-> insts, nets |-> nets, busses |-> busses, prims |-> <<>>]

BoardNode(libs, dr, ar) == [libraries |-> libs, designrules |-> dr, autorouter |-> ar]

LayersNode ==
    <<[number |-> 1, name |-> "Top", color |-> 4, visible |-> "yes", active |-> "yes"]>>

SettingsNode ==
    [attrib |-> <<>>,
     settings |-> <<[attrib |-> <<[k |-> "alwaysvectorfont", v |-> "no"]>>]>>]

GridNode == [attrib |-> <<[k |-> "style", v |-> "lines"]>>]

DesignRulesNode == [name |-> "default", params |-> <<[name |-> "layerSetup", value |-> "(1*16)"]>>]

AutorouterNode == [passes |-> <<<<[name |-> "RoutingGrid", value |-> "50mil"]>>>>]

\* package nodes, and device nodes that name a package or none
PackageNodes ==
    {[name |-> "A", prims |-> <<PadNode>>], [name |-> "A", prims |-> <<>>],
     [name |-> "B", prims |-> <<WireNode, PadNode>>]}

DeviceNodes == {DeviceNode(n, p, <<>>) : n \in Names, p \in Names \cup {NoAttr}}

\* symbol nodes, and gate nodes that name a symbol or none
SymbolNodes ==
    {[name |-> "A", prims |-> <<PinNode>>], [name |-> "A", prims |-> <<>>],
     [name |-> "B", prims |-> <<PinNode, WireNode>>]}

GateNodes == {GateNode(n, sy) : n \in Names, sy \in Names \cup {NoAttr}}

DeviceSetNodes == {DeviceSetNode(n, pre, <<>>, <<>>) : n \in Names, pre \in {None, "U"}}

TechnologyNodes ==
    {[name |-> n, attributes |-> at] :
        n \in {"", "T"}, at \in {<<>>, <<[name |-> "K", value |-> "V"]>>}}

\* the libraries embedded in schematics and boards: one device set A with
\* one gate G and one device
EmbeddedLibraryNodes ==
    {LibraryNode(n, <<>>, <<>>,
                 <<DeviceSetNode("A", "U", <<GateNode("G", "A")>>,
                                 <<DeviceNode(d, NoAttr, <<>>)>>)>>) :
        n \in Names, d \in Names}

\* (library, deviceset, device) of a part
PartRefs == {<<"A", "A", "A">>, <<"B", "A", "A">>, <<"A", "B", "A">>, <<"A", "A", "B">>}

PartNode(name, ref) ==
    [name |-> name, library |-> ref[1], deviceset |-> ref[2], device |-> ref[3],
     value |-> None, technology |-> NoAttr]

PartNodes == {PartNode(n, r) : n \in Names, r \in PartRefs}

InstanceNode(part, gate, rot) ==
    [part |-> part, gate |-> gate, x |-> 0, y |-> 0, smashed |-> NoAttr, rot |-> rot]

InstanceNodes ==
    {InstanceNode(p, g, NoChars) : p \in Names, g \in {"G", "H"}}
    \cup {InstanceNode("A", "G", <<"M", "R", "9", "0">>), InstanceNode("A", "G", <<"M", "0">>)}

SegmentNode == [prims |-> <<WireNode>>, junctions |-> <<>>]

NetNodes ==
    {[name |-> "A", class |-> "0", segments |-> <<>>],
     [name |-> "A", class |-> "0", segments |-> <<SegmentNode>>],
     [name |-> "B", class |-> "0", segments |-> <<>>]}

BusNodes ==
    {[name |-> "A", prims |-> <<>>, segments |-> <<>>],
     [name |-> "A", prims |-> <<WireNode>>, segments |-> <<SegmentNode>>],
     [name |-> "B", prims |-> <<>>, segments |-> <<>>]}

DefaultLibrary ==
    LibraryNode(None, <<[name |-> "A", prims |-> <<PadNode>>]>>,
                <<[name |-> "A", prims |-> <<PinNode>>]>>,
                <<DeviceSetNode("A", "U", <<GateNode("G", "A")>>,
                                <<DeviceNode("A", "A", <<>>)>>)>>)

DefaultEmbedded ==
    LibraryNode("A", <<>>, <<>>,
                <<DeviceSetNode("A", "U", <<GateNode("G", "A")>>,
                                <<DeviceNode("A", NoAttr, <<>>)>>)>>)

DefaultSchematic ==
    SchematicNode(<<DefaultEmbedded>>, <<PartNode("A", <<"A", "A", "A">>)>>,
                  <<SheetNode(<<InstanceNode("A", "G", NoChars)>>, <<>>, <<>>)>>)

DefaultBoard == BoardNode(<<DefaultEmbedded>>, <<DesignRulesNode>>, <<AutorouterNode>>)

Drawing(nd, nl, ns, nb, lay, sett, grd, lib, sch, brd) ==
    [ndrawing |-> nd, nlibrary |-> nl, nschematic |-> ns, nboard |-> nb,
     layers |-> lay, settings |-> sett, grid |-> grd,
     library |-> lib, schematic |-> sch, board |-> brd]

LibraryDrawing(lib) ==
    Drawing(1, 1, 0, 0, <<LayersNode>>, <<SettingsNode>>, <<GridNode>>, lib, DefaultSchematic, DefaultBoard)

SchematicDrawing(sch) ==
    Drawing(1, 0, 1, 0, <<LayersNode>>, <<SettingsNode>>, <<GridNode>>, DefaultLibrary, sch, DefaultBoard)

BoardDrawing(brd) ==
    Drawing(1, 0, 0, 1, <<LayersNode>>, <<SettingsNode>>, <<GridNode>>, DefaultLibrary, DefaultSchematic, brd)

\* every count of the three tags, with or without the drawing's own children
DocsOpen(d) ==
    \/ d = Drawing(0, 0, 0, 0, <<LayersNode>>, <<SettingsNode>>, <<GridNode>>,
                   DefaultLibrary, DefaultSchematic, DefaultBoard)
    \/ \E nl \in 0..MaxTags, ns \in 0..MaxTags, nb \in 0..MaxTags,
          lay \in {<<>>, <<LayersNode>>}, sett \in {<<>>, <<SettingsNode>>},
          grd \in {<<>>, <<GridNode>>} :
            d = Drawing(1, nl, ns, nb, lay, sett, grd,
                        DefaultLibrary, DefaultSchematic, DefaultBoard)

\* libraries: packages and the devices that name them
DocsPackages(d) ==
    \E ps \in SeqsUpTo(PackageNodes, MaxNodes), ds \in SeqsUpTo(DeviceNodes, MaxNodes) :
        d = LibraryDrawing(LibraryNode(None, ps, <<>>,
                                       <<DeviceSetNode("A", "U", <<>>, ds)>>))

\* libraries: symbols and the gates that name them
DocsSymbols(d) ==
    \E sy \in SeqsUpTo(SymbolNodes, MaxNodes), gs \in SeqsUpTo(GateNodes, MaxNodes) :
        d = LibraryDrawing(LibraryNode(None, <<>>, sy,
                                       <<DeviceSetNode("A", "U", gs, <<>>)>>))

\* libraries: device sets, and the technologies of one device
DocsDeviceSets(d) ==
    \/ \E dss \in SeqsUpTo(DeviceSetNodes, MaxNodes) :
          d = LibraryDrawing(LibraryNode(None, <<>>, <<>>, dss))
    \/ \E ts \in SeqsUpTo(TechnologyNodes, MaxNodes) :
          d = LibraryDrawing(LibraryNode(None, <<>>, <<>>,
                <<DeviceSetNode("A", "U", <<>>, <<DeviceNode("A", NoAttr, ts)>>)>>))

\* schematics: embedded libraries and the parts that name them
DocsParts(d) ==
    \E ls \in SeqsUpTo(EmbeddedLibraryNodes, MaxNodes), ps \in SeqsUpTo(PartNodes, MaxNodes) :
        d = SchematicDrawing(SchematicNode(ls, ps, <<>>))

\* schematics: one sheet of instances, or of nets and busses
DocsSheets(d) ==
    \/ \E ps \in {<<>>, <<PartNode("A", <<"A", "A", "A">>)>>},
          is \in SeqsUpTo(InstanceNodes, MaxNodes) :
            d = SchematicDrawing(SchematicNode(<<DefaultEmbedded>>, ps,
                                               <<SheetNode(is, <<>>, <<>>)>>))
    \/ \E ns \in SeqsUpTo(NetNodes, MaxNodes), bs \in SeqsUpTo(BusNodes, MaxNodes) :
            d = SchematicDrawing(SchematicNode(<<DefaultEmbedded>>, <<>>,
                                               <<SheetNode(<<>>, ns, bs)>>))

\* boards: embedded libraries, with or without the rules
DocsBoards(d) ==
    \E ls \in SeqsUpTo(EmbeddedLibraryNodes, MaxNodes),
       dr \in {<<>>, <<DesignRulesNode>>}, ar \in {<<>>, <<AutorouterNode>>} :
        d = BoardDrawing(BoardNode(ls, dr, ar))

---------------------------------------------------------------------------
(* The parse: pyeagle.open, then from_drawing_xml of the class it chose,   *)
(* one action per step of the code.                                        *)

NoGeometry == <<>>

\* no SVGRenderer has been built
NoRenderers == <<>>

\* no method has been called yet
NoAnswer == [op |-> "none"]

NoBox == <<"unset">>

InitDoc ==
    \/ DocsOpen(doc)
    \/ DocsPackages(doc)
    \/ DocsSymbols(doc)
    \/ DocsDeviceSets(doc)
    \/ DocsParts(doc)
    \/ DocsSheets(doc)
    \/ DocsBoards(doc)

Init ==
    /\ InitDoc
    /\ pc = "open"
    /\ cls = None
    /\ outcome = "running"
    /\ result = NoneObject
    /\ layers = <<>> /\ settings = <<>> /\ grid = <<>>
    /\ packages = <<>> /\ symbols = <<>> /\ device_sets = <<>>
    /\ classes = <<>> /\ libraries = <<>> /\ parts = <<>> /\ sheets = <<>>
    /\ design_rules = NoneObject /\ autorouter_rules = NoneObject
    /\ geom = NoGeometry
    /\ bbox = NoBox
    /\ rend = NoRenderers /\ calls = <<>> /\ answer = NoAnswer
    /\ entity = NoneObject

\* an exception leaves open: nothing is returned
Raise(e) ==
    /\ outcome' = e
    /\ pc' = "done"

\* open, lines 24-31: the class is chosen, or NotImplementedError
Open ==
    /\ pc = "open"
    /\ IF OpenClass(doc) = None
       THEN Raise("NotImplementedError") /\ UNCHANGED cls
       ELSE cls' = OpenClass(doc) /\ pc' = "drawing" /\ UNCHANGED outcome
    /\ UNCHANGED <<doc, result, layers, settings, grid, packages, symbols,
                   device_sets, classes, libraries, parts, sheets,
                   design_rules, autorouter_rules, geom, bbox, renderVars>>

\* from_drawing_xml handing a library to its device sets loop first
FromDrawingDeviceSetsFirst ==
    /\ pc = "drawing"
    /\ IF doc.layers = <<>> \/ doc.settings = <<>> \/ doc.grid = <<>>
       THEN Raise("IndexError") /\ UNCHANGED <<layers, settings, grid>>
       ELSE /\ layers' = LayerSetFromXml(doc.layers[1])
            /\ settings' = SettingsFromXml(doc.settings[1])
            /\ grid' = GridFromXml(doc.grid[1])
            /\ pc' = CASE cls = "Library" -> "devicesets"
                       [] cls = "Schematic" -> "classes"
                       [] cls = "Board" -> "board_libraries"
            /\ UNCHANGED outcome
    /\ UNCHANGED <<doc, cls, result, packages, symbols, device_sets, classes,
                   libraries, parts, sheets, design_rules, autorouter_rules,
                   geom, bbox, renderVars>>

\* from_drawing_xml of the three classes: node.xpath('layers')[0],
\* node.xpath('settings')[0], node.xpath('grid')[0]; IndexError when missing
FromDrawing ==
    /\ pc = "drawing"
    /\ IF doc.layers = <<>> \/ doc.settings = <<>> \/ doc.grid = <<>>
       THEN Raise("IndexError") /\ UNCHANGED <<layers, settings, grid>>
       ELSE /\ layers' = LayerSetFromXml(doc.layers[1])
            /\ settings' = SettingsFromXml(doc.settings[1])
            /\ grid' = GridFromXml(doc.grid[1])
            /\ pc' = CASE cls = "Library" -> "packages"
                       [] cls = "Schematic" -> "classes"
                       [] cls = "Board" -> "board_libraries"
            /\ UNCHANGED outcome
    /\ UNCHANGED <<doc, cls, result, packages, symbols, device_sets, classes,
                   libraries, parts, sheets, design_rules, autorouter_rules,
                   geom, bbox, renderVars>>

\* Library.from_xml: the packages loop
LibPackages ==
    /\ pc = "packages"
    /\ packages' = LibraryPackages(doc.library, 0)
    /\ pc' = "symbols"
    /\ UNCHANGED <<doc, cls, outcome, result, layers, settings, grid, symbols,
                   device_sets, classes, libraries, parts, sheets,
                   design_rules, autorouter_rules, geom, bbox, renderVars>>

\* Library.from_xml: the symbols loop
LibSymbols ==
    /\ pc = "symbols"
    /\ symbols' = LibrarySymbols(doc.library, 0)
    /\ pc' = "devicesets"
    /\ UNCHANGED <<doc, cls, outcome, result, layers, settings, grid, packages,
                   device_sets, classes, libraries, parts, sheets,
                   design_rules, autorouter_rules, geom, bbox, renderVars>>

\* Library.from_xml: the device sets loop, against the packages built
LibDeviceSets ==
    /\ pc = "devicesets"
    /\ device_sets' = LibraryDeviceSets(doc.library, packages, 0)
    /\ pc' = "library"
    /\ UNCHANGED <<doc, cls, outcome, result, layers, settings, grid, packages,
                   symbols, classes, libraries, parts, sheets,
                   design_rules, autorouter_rules, geom, bbox, renderVars>>

\* Library.from_xml: return cls(...)
LibReturn ==
    /\ pc = "library"
    /\ result' = Library(0, doc.library.name, packages, symbols, device_sets,
                         layers, settings, grid)
    /\ outcome' = "returned"
    /\ pc' = "done"
    /\ UNCHANGED <<doc, cls, layers, settings, grid, packages, symbols,
                   device_sets, classes, libraries, parts, sheets,
                   design_rules, autorouter_rules, geom, bbox, renderVars>>

\* Schematic.from_drawing_xml: the classes loop
SchClasses ==
    /\ pc = "classes"
    /\ classes' = SchematicClasses(doc.schematic.classes)
    /\ pc' = "libraries"
    /\ UNCHANGED <<doc, cls, outcome, result, layers, settings, grid, packages,
                   symbols, device_sets, libraries, parts, sheets,
                   design_rules, autorouter_rules, geom, bbox, renderVars>>

\* Schematic.from_drawing_xml: the libraries loop
SchLibraries ==
    /\ pc = "libraries"
    /\ libraries' = EmbeddedLibraries(doc.schematic.libraries, layers, settings, grid)
    /\ pc' = "parts"
    /\ UNCHANGED <<doc, cls, outcome, result, layers, settings, grid, packages,
                   symbols, device_sets, classes, parts, sheets,
                   design_rules, autorouter_rules, geom, bbox, renderVars>>

\* the parts loop passing over the parts that do not resolve
SchPartsSkipping ==
    /\ pc = "parts"
    /\ parts' = SchematicParts(
                    SelectSeq(doc.schematic.parts, LAMBDA n : PartResolves(n, libraries)),
                    libraries)
    /\ pc' = "sheets"
    /\ UNCHANGED <<doc, cls, outcome, result, layers, settings, grid, packages,
                   symbols, device_sets, classes, libraries, sheets,
                   design_rules, autorouter_rules, geom, bbox, renderVars>>

\* Schematic.from_drawing_xml: the parts loop; KeyError when a part names
\* what the libraries do not hold
SchParts ==
    /\ pc = "parts"
    /\ IF SchematicPartsOk(doc.schematic.parts, libraries)
       THEN /\ parts' = SchematicParts(doc.schematic.parts, libraries)
            /\ pc' = "sheets"
            /\ UNCHANGED outcome
       ELSE Raise("KeyError") /\ UNCHANGED parts
    /\ UNCHANGED <<doc, cls, result, layers, settings, grid, packages,
                   symbols, device_sets, classes, libraries, sheets,
                   design_rules, autorouter_rules, geom, bbox, renderVars>>

\* Schematic.from_drawing_xml: the sheets loop
SchSheets ==
    /\ pc = "sheets"
    /\ IF SchematicSheetsOk(doc.schematic.sheets)
       THEN /\ sheets' = SchematicSheets(doc.schematic.sheets)
            /\ pc' = "schematic"
            /\ UNCHANGED outcome
       ELSE Raise("ValueError") /\ UNCHANGED sheets
    /\ UNCHANGED <<doc, cls, result, layers, settings, grid, packages,
                   symbols, device_sets, classes, libraries, parts,
                   design_rules, autorouter_rules, geom, bbox, renderVars>>

\* Schematic.from_drawing_xml: return cls(...)
SchReturn ==
    /\ pc = "schematic"
    /\ result' = Schematic(classes, libraries, parts, sheets, layers, settings, grid)
    /\ outcome' = "returned"
    /\ pc' = "done"
    /\ UNCHANGED <<doc, cls, layers, settings, grid, packages, symbols,
                   device_sets, classes, libraries, parts, sheets,
                   design_rules, autorouter_rules, geom, bbox, renderVars>>

\* Board.from_drawing_xml: the libraries loop
BrdLibraries ==
    /\ pc = "board_libraries"
    /\ libraries' = EmbeddedLibraries(doc.board.libraries, layers, settings, grid)
    /\ pc' = "designrules"
    /\ UNCHANGED <<doc, cls, outcome, result, layers, settings, grid, packages,
                   symbols, device_sets, classes, parts, sheets,
                   design_rules, autorouter_rules, geom, bbox, renderVars>>

\* Board.from_drawing_xml: board_root.xpath('designrules')[0]
BrdDesignRules ==
    /\ pc = "designrules"
    /\ IF doc.board.designrules = <<>>
       THEN Raise("IndexError") /\ UNCHANGED design_rules
       ELSE /\ design_rules' = DesignRulesFromXml(doc.board.designrules[1])
            /\ pc' = "autorouter"
            /\ UNCHANGED outcome
    /\ UNCHANGED <<doc, cls, result, layers, settings, grid, packages,
                   symbols, device_sets, classes, libraries, parts, sheets,
                   autorouter_rules, geom, bbox, renderVars>>

\* Board.from_drawing_xml: board_root.xpath('autorouter')[0]
BrdAutorouter ==
    /\ pc = "autorouter"
    /\ IF doc.board.autorouter = <<>>
       THEN Raise("IndexError") /\ UNCHANGED autorouter_rules
       ELSE /\ autorouter_rules' = AutorouterRulesFromXml(doc.board.autorouter[1])
            /\ pc' = "board"
            /\ UNCHANGED outcome
    /\ UNCHANGED <<doc, cls, result, layers, settings, grid, packages,
                   symbols, device_sets, classes, libraries, parts, sheets,
                   design_rules, geom, bbox, renderVars>>

\* Board.from_drawing_xml: return cls(...)
BrdReturn ==
    /\ pc = "board"
    /\ result' = Board(libraries, design_rules, autorouter_rules, layers, settings, grid)
    /\ outcome' = "returned"
    /\ pc' = "done"
    /\ UNCHANGED <<doc, cls, layers, settings, grid, packages, symbols,
                   device_sets, classes, libraries, parts, sheets,
                   design_rules, autorouter_rules, geom, bbox, renderVars>>

Next ==
    \/ Open
    \/ FromDrawing
    \/ LibPackages
    \/ LibSymbols
    \/ LibDeviceSets
    \/ LibReturn
    \/ SchClasses
    \/ SchLibraries
    \/ SchParts
    \/ SchSheets
    \/ SchReturn
    \/ BrdLibraries
    \/ BrdDesignRules
    \/ BrdAutorouter
    \/ BrdReturn

Spec == Init /\ [][Next]_vars

---------------------------------------------------------------------------
(* A caller builds a Geometry container from primitives of its choice and  *)
(* asks for its bounding box.                                              *)

\* the most primitives in a container
MaxPrims == 2

Wires ==
    {[kind |-> "wire", x1 |-> x1, y1 |-> 1, x2 |-> 3, y2 |-> y2, width |-> w, layer |-> 1] :
        x1 \in {-2, 1}, y2 \in {-1, 2}, w \in {0, 1}}

SMDs ==
    {[kind |-> "smd", name |-> "1", x |-> x, y |-> 2, dx |-> 1, dy |-> 2, layer |-> 1] :
        x \in {-3, 2}}

Texts ==
    {[kind |-> "text", s |-> s, x |-> 1, y |-> y, size |-> 1, layer |-> 21] :
        s \in {"", ">NAME"}, y \in {-2, 2}}

Rectangles ==
    {[kind |-> "rectangle", x1 |-> x1, y1 |-> 1, x2 |-> 1, y2 |-> 2, layer |-> 1] :
        x1 \in {-1, 3}}

Polygons ==
    {[kind |-> "polygon", width |-> 1, layer |-> 1, vertices |-> vs] :
        vs \in {<<>>, <<<<1, 1>>, <<3, 1>>, <<2, 2>>>>, <<<<-1, -1>>, <<-3, -2>>>>}}

Holes == {[kind |-> "hole", x |-> x, y |-> 1, drill |-> 1] : x \in {-2, 2}}

Pads ==
    {[kind |-> "pad", name |-> "1", x |-> x, y |-> -1, drill |-> 1, diameter |-> d] :
        x \in {-2, 2}, d \in {0, 2}}

Circles ==
    {[kind |-> "circle", x |-> x, y |-> 3, radius |-> 1, width |-> 1, layer |-> 1] :
        x \in {-3, 3}}

Pins ==
    {[kind |-> "pin", name |-> "P", x |-> x, y |-> 1, length |-> l, rotate |-> r,
      visible |-> TRUE] :
        x \in {-3, 2}, l \in {"point", "long"}, r \in {0, 90, 180, 270, 45}}

GeomPrimitives ==
    Wires \cup SMDs \cup Texts \cup Rectangles \cup Polygons \cup Holes \cup Pads
    \cup Circles \cup Pins

InitGeom ==
    /\ doc = Drawing(0, 0, 0, 0, <<>>, <<>>, <<>>, DefaultLibrary, DefaultSchematic,
                     DefaultBoard)
    /\ pc = "idle"
    /\ cls = None
    /\ outcome = "running"
    /\ result = NoneObject
    /\ layers = <<>> /\ settings = <<>> /\ grid = <<>>
    /\ packages = <<>> /\ symbols = <<>> /\ device_sets = <<>>
    /\ classes = <<>> /\ libraries = <<>> /\ parts = <<>> /\ sheets = <<>>
    /\ design_rules = NoneObject /\ autorouter_rules = NoneObject
    /\ geom \in SeqsUpTo(GeomPrimitives, MaxPrims)
    /\ bbox = NoBox
    /\ rend = NoRenderers /\ calls = <<>> /\ answer = NoAnswer
    /\ entity = NoneObject

\* geom.bounding_box()
BoundingBox ==
    /\ pc = "idle"
    /\ bbox = NoBox
    /\ bbox' = GeometryBoundingBox(geom)
    /\ UNCHANGED <<geom, doc, pc, cls, outcome, result, layers, settings, grid,
                   packages, symbols, device_sets, classes, libraries, parts,
                   sheets, design_rules, autorouter_rules, renderVars>>

NextGeom == BoundingBox

SpecGeom == InitGeom /\ [][NextGeom]_vars

---------------------------------------------------------------------------
(* pyeagle/geometry.py: to_svg_fragments.  An element is a record of its   *)
(* tag and attributes; lengths and positions are in thousandths of a       *)
(* device unit (micrometres times the scale), offsets in micrometres.  A   *)
(* call that raises gives the one element of tag "raise".                  *)

PadsLayer == 17

HolesLayer == 45

SymbolsLayer == 94

PinsLayer == 93

Raised(e) == <<[tag |-> "raise", exception |-> e]>>

IsRaised(fs) == Len(fs) = 1 /\ fs[1].tag = "raise"

\* ((coordinate * flip) + offset) * scale
Place(v, f, off, scale) == ((Um(v) * f) + off) * scale

\* '%d' of a float: the fraction is cut off, towards zero
TruncDiv(a, b) == IF a >= 0 THEN a \div b ELSE -((-a) \div b)

\* Wire.to_svg_fragments
WireToSvgFragments(p, offset, scale, flip, ls) ==
    LET color == GetCssColor(ls, p.layer)
    IN IF color = <<"KeyError">> THEN Raised("KeyError")
       ELSE IF color # NoColor
       THEN <<[tag |-> "line",
               x1 |-> Place(p.x1, flip[1], offset[1], scale),
               y1 |-> Place(p.y1, flip[2], offset[2], scale),
               x2 |-> Place(p.x2, flip[1], offset[1], scale),
               y2 |-> Place(p.y2, flip[2], offset[2], scale),
               stroke |-> color, stroke_width |-> Um(p.width) * scale,
               stroke_linecap |-> "round"]>>
       ELSE <<>>

\* SMD.to_svg_fragments
SMDToSvgFragments(p, offset, scale, flip, ls) ==
    LET color == GetCssColor(ls, p.layer)
    IN IF color = <<"KeyError">> THEN Raised("KeyError")
       ELSE IF color # NoColor
       THEN <<[tag |-> "rect",
               x |-> ((Um(p.x) * flip[1]) + offset[1] - HalfUm(p.dx)) * scale,
               y |-> ((Um(p.y) * flip[2]) + offset[2] - HalfUm(p.dy)) * scale,
               width |-> Um(p.dx) * scale, height |-> Um(p.dy) * scale,
               fill |-> color]>>
       ELSE <<>>

\* Text.to_svg_fragments
TextToSvgFragments(p, offset, scale, flip, ls) ==
    LET color == GetCssColor(ls, p.layer)
        native_width == TextWidth(p)
        native_height == Um(p.size)
        x == (Um(p.x) * flip[1]) - (IF flip[1] = -1 THEN 2 * native_width ELSE 0)
        y == (Um(p.y) * flip[2])
             + (IF flip[2] = -1 THEN HalfUm(p.size)
                ELSE IF flip[2] = 1 THEN -native_height ELSE 0)
    IN IF color = <<"KeyError">> THEN Raised("KeyError")
       ELSE IF color # NoColor
       THEN <<[tag |-> "text", s |-> p.s,
               x |-> (x + offset[1]) * scale, y |-> (y + offset[2]) * scale,
               fill |-> color, font_size |-> Um(p.size) * scale,
               transform |-> <<"scale", flip[1], -flip[2]>>]>>
       ELSE <<>>

\* Rectangle.to_svg_fragments
RectangleToSvgFragments(p, offset, scale, flip, ls) ==
    LET color == GetCssColor(ls, p.layer)
        x == Min(Um(p.x1) * flip[1], Um(p.x2) * flip[1])
        y == Min(Um(p.y1) * flip[2], Um(p.y2) * flip[2])
    IN IF color = <<"KeyError">> THEN Raised("KeyError")
       ELSE IF color # NoColor
       THEN <<[tag |-> "rect",
               x |-> (x + offset[1]) * scale, y |-> (y + offset[2]) * scale,
               width |-> Um(Max(p.x2 - p.x1, p.x1 - p.x2)) * scale,
               height |-> Um(Max(p.y2 - p.y1, p.y1 - p.y2)) * scale,
               fill |-> color]>>
       ELSE <<>>

\* Pad.to_svg_fragments: the color of the pads layer
PadToSvgFragments(p, offset, scale, flip, ls) ==
    LET color == GetCssColor(ls, PadsLayer)
    IN IF color = <<"KeyError">> THEN Raised("KeyError")
       ELSE IF color # NoColor
       THEN <<[tag |-> "circle", r |-> HalfUm(p.diameter) * scale,
               cx |-> Place(p.x, flip[1], offset[1], scale),
               cy |-> Place(p.y, flip[2], offset[2], scale),
               fill |-> color, stroke_width |-> 0]>>
       ELSE <<>>

\* Pin.to_svg_fragments: the end of the line first, then the line in the
\* color of the symbols layer, then the circle in the color of the pins layer
PinToSvgFragments(p, offset, scale, flip, ls) ==
    LET end == PinLineEndpoint(p)
        lineColor == GetCssColor(ls, SymbolsLayer)
        circleColor == GetCssColor(ls, PinsLayer)
    IN IF Len(end) # 2 THEN Raised("UnboundLocalError")
       ELSE IF lineColor = <<"KeyError">> \/ circleColor = <<"KeyError">>
       THEN Raised("KeyError")
       ELSE (IF lineColor # NoColor
             THEN <<[tag |-> "line",
                     x1 |-> Place(p.x, flip[1], offset[1], scale),
                     y1 |-> Place(p.y, flip[2], offset[2], scale),
                     x2 |-> ((end[1] * flip[1]) + offset[1]) * scale,
                     y2 |-> ((end[2] * flip[2]) + offset[2]) * scale,
                     stroke |-> lineColor, stroke_width |-> 1]>>
             ELSE <<>>)
            \o (IF circleColor # NoColor
                THEN <<[tag |-> "circle", r |-> PinOriginRadius * scale,
                        cx |-> Place(p.x, flip[1], offset[1], scale),
                        cy |-> Place(p.y, flip[2], offset[2], scale),
                        stroke |-> circleColor, stroke_width |-> 1,
                        fill |-> "transparent"]>>
                ELSE <<>>)

\* Polygon.to_svg_fragments: the points are written with '%d,%d'
PolygonToSvgFragments(p, offset, scale, flip, ls) ==
    LET color == GetCssColor(ls, p.layer)
    IN IF color = <<"KeyError">> THEN Raised("KeyError")
       ELSE IF color # NoColor
       THEN <<[tag |-> "polygon",
               points |-> [i \in 1..Len(p.vertices) |->
                   <<TruncDiv(Place(p.vertices[i][1], flip[1], offset[1], scale), 1000),
                     TruncDiv(Place(p.vertices[i][2], flip[2], offset[2], scale), 1000)>>],
               fill |-> color, stroke |-> color,
               stroke_width |-> Um(p.width) * scale]>>
       ELSE <<>>

\* Hole.to_svg_fragments: the color of the holes layer
HoleToSvgFragments(p, offset, scale, flip, ls) ==
    LET color == GetCssColor(ls, HolesLayer)
    IN IF color = <<"KeyError">> THEN Raised("KeyError")
       ELSE IF color # NoColor
       THEN <<[tag |-> "circle", r |-> HalfUm(p.drill) * scale,
               cx |-> Place(p.x, flip[1], offset[1], scale),
               cy |-> Place(p.y, flip[2], offset[2], scale),
               fill |-> "rgba(0, 0, 0, 0)", stroke |-> color, stroke_width |-> 1]>>
       ELSE <<>>

\* Circle.to_svg_fragments
CircleToSvgFragments(p, offset, scale, flip, ls) ==
    LET color == GetCssColor(ls, p.layer)
    IN IF color = <<"KeyError">> THEN Raised("KeyError")
       ELSE IF color # NoColor
       THEN <<[tag |-> "circle", r |-> Um(p.radius) * scale,
               cx |-> Place(p.x, flip[1], offset[1], scale),
               cy |-> Place(p.y, flip[2], offset[2], scale),
               fill |-> "rgba(0, 0, 0, 0)", stroke |-> color,
               stroke_width |-> Um(p.width) * scale]>>
       ELSE <<>>

\* primitive.to_svg_fragments(offset, scale, flip, layers), by the class
PrimitiveToSvgFragments(p, offset, scale, flip, ls) ==
    CASE p.kind = "wire" -> WireToSvgFragments(p, offset, scale, flip, ls)
      [] p.kind = "smd" -> SMDToSvgFragments(p, offset, scale, flip, ls)
      [] p.kind = "text" -> TextToSvgFragments(p, offset, scale, flip, ls)
      [] p.kind = "rectangle" -> RectangleToSvgFragments(p, offset, scale, flip, ls)
      [] p.kind = "pad" -> PadToSvgFragments(p, offset, scale, flip, ls)
      [] p.kind = "pin" -> PinToSvgFragments(p, offset, scale, flip, ls)
      [] p.kind = "polygon" -> PolygonToSvgFragments(p, offset, scale, flip, ls)
      [] p.kind = "hole" -> HoleToSvgFragments(p, offset, scale, flip, ls)
      [] p.kind = "circle" -> CircleToSvgFragments(p, offset, scale, flip, ls)

\* Geometry.to_svg_fragments: children.extend(...) over the primitives, in
\* order; the first primitive that raises ends the loop
RECURSIVE GeometryToSvgFragmentsUpTo(_, _, _, _, _, _)
GeometryToSvgFragmentsUpTo(prims, n, offset, scale, flip, ls) ==
    IF n = 0 THEN <<>>
    ELSE LET children == GeometryToSvgFragmentsUpTo(prims, n - 1, offset, scale, flip, ls)
             more == PrimitiveToSvgFragments(prims[n], offset, scale, flip, ls)
         IN IF IsRaised(children) THEN children
            ELSE IF IsRaised(more) THEN more
            ELSE children \o more

\* the loop walking the primitives from the last to the first
GeometryToSvgFragmentsReversed(prims, offset, scale, flip, ls) ==
    GeometryToSvgFragmentsUpTo([i \in 1..Len(prims) |-> prims[Len(prims) + 1 - i]],
                               Len(prims), offset, scale, flip, ls)

GeometryToSvgFragments(prims, offset, scale, flip, ls) ==
    GeometryToSvgFragmentsUpTo(prims, Len(prims), offset, scale, flip, ls)

---------------------------------------------------------------------------
(* pyeagle/render.py.  Widths and heights of the document are in device    *)
(* units.                                                                  *)

\* SVGRenderer.__init__
SVGRenderer(scale, margin, flip, add_bounding_box) ==
    [scale |-> scale, margin |-> margin, flip |-> flip,
     add_bounding_box |-> add_bounding_box]

\* SVGRenderer(primitive, layers, **given): the keyword arguments the caller
\* gives are taken from values, the others from the defaults of __init__
SVGRendererOf(given, values) ==
    SVGRenderer(IF "scale" \in given THEN values.scale ELSE 1,
                IF "margin" \in given THEN values.margin ELSE 10,
                IF "flip" \in given THEN values.flip ELSE <<1, -1>>,
                IF "add_bounding_box" \in given THEN values.add_bounding_box ELSE TRUE)

\* int(v) + 1 in the place of math.ceil(v)
CeilScaledByTruncation(um, scale) == ((um * scale) \div 1000) + 1

\* math.ceil(native * scale), native being in micrometres
CeilScaled(um, scale) == -((-(um * scale)) \div 1000)

\* math.floor in the place of math.ceil
ScaledSizeFloored(box, scale) ==
    <<((box[2][1] - box[1][1]) * scale) \div 1000,
      ((box[2][2] - box[1][2]) * scale) \div 1000>>

\* scaled_width, scaled_height of make_svg_doc and to_svg_bounding_box
ScaledSize(box, scale) ==
    <<CeilScaled(box[2][1] - box[1][1], scale), CeilScaled(box[2][2] - box[1][2], scale)>>

\* the offset that reflects about the origin: the flip is not looked at
RenderOffsetAboutOrigin(r, box) ==
    LET offset_margin == (1000 * r.margin) \div r.scale
    IN <<(-box[1][1]) + offset_margin, (-box[1][2]) + offset_margin>>

\* offset of make_svg_doc, in micrometres: by the flip of each axis, plus
\* float(margin) / scale (the scales and margins used divide evenly)
RenderOffset(r, box) ==
    LET offset_margin == (1000 * r.margin) \div r.scale
        native_width == box[2][1] - box[1][1]
        native_height == box[2][2] - box[1][2]
    IN <<(IF r.flip[1] = -1 THEN native_width + box[1][1] ELSE -box[1][1]) + offset_margin,
         (IF r.flip[2] = -1 THEN native_height + box[1][2] ELSE -box[1][2]) + offset_margin>>

\* SVGRenderer.to_svg_bounding_box
ToSvgBoundingBox(r, box) ==
    [tag |-> "rect", x |-> r.margin, y |-> r.margin,
     width |-> ScaledSize(box, r.scale)[1], height |-> ScaledSize(box, r.scale)[2],
     stroke_width |-> 1, stroke |-> "red", fill |-> "rgba(255, 0, 0, 0.1)"]

\* the root sized by the offsets in the place of the native extent
SvgRootFromOffsets(r, box, children) ==
    [tag |-> "svg", children |-> children,
     width |-> CeilScaled(RenderOffset(r, box)[1], r.scale) + (2 * r.margin),
     height |-> CeilScaled(RenderOffset(r, box)[2], r.scale) + (2 * r.margin)]

\* E.svg(*children, width=scaled_width + 2 * margin, height=...)
SvgRoot(r, box, children) ==
    [tag |-> "svg", children |-> children,
     width |-> ScaledSize(box, r.scale)[1] + (2 * r.margin),
     height |-> ScaledSize(box, r.scale)[2] + (2 * r.margin)]

\* SVGRenderer.make_svg_doc, run from its first line to its last
MakeSvgDoc(r, prims, ls) ==
    LET box == GeometryBoundingBox(prims)
    IN IF ~IsBox(box) THEN [tag |-> "raise", exception |-> box[1]]
       ELSE LET children == GeometryToSvgFragments(prims, RenderOffset(r, box), r.scale,
                                                   r.flip, ls)
            IN IF IsRaised(children) THEN children[1]
               ELSE SvgRoot(r, box,
                            IF r.add_bounding_box
                            THEN <<ToSvgBoundingBox(r, box)>> \o children
                            ELSE children)

---------------------------------------------------------------------------
(* The layer set on its own: a caller parses <layers> and queries it.      *)

MaxLayers == 2

QueryNumbers == {1, 17, 45, 93, 94}

LayerNode(number, color, visible, active) ==
    [number |-> number, name |-> "L", color |-> color, visible |-> visible,
     active |-> active]

LayerNodes ==
    {LayerNode(n, 4, v, a) : n \in {1, 93, 94}, v \in {"yes", "no"}, a \in {"yes", "no"}}
    \cup {LayerNode(17, c, "yes", a) : c \in {-1, 16}, a \in {"yes", "true"}}

InitLayers ==
    /\ \E ns \in SeqsUpTo(LayerNodes, MaxLayers) :
         /\ doc = Drawing(1, 1, 0, 0, <<ns>>, <<SettingsNode>>, <<GridNode>>,
                          DefaultLibrary, DefaultSchematic, DefaultBoard)
         /\ layers = LayerSetFromXml(ns)
    /\ pc = "idle"
    /\ cls = None
    /\ outcome = "running"
    /\ result = NoneObject
    /\ settings = <<>> /\ grid = <<>>
    /\ packages = <<>> /\ symbols = <<>> /\ device_sets = <<>>
    /\ classes = <<>> /\ libraries = <<>> /\ parts = <<>> /\ sheets = <<>>
    /\ design_rules = NoneObject /\ autorouter_rules = NoneObject
    /\ geom = NoGeometry
    /\ bbox = NoBox
    /\ rend = NoRenderers /\ calls = <<>> /\ answer = NoAnswer
    /\ entity = NoneObject

\* layers.is_visible(number)
CallIsVisible ==
    /\ pc = "idle"
    /\ answer = NoAnswer
    /\ \E number \in QueryNumbers :
         answer' = IF LayerDefined(layers, number)
                   THEN [op |-> "is_visible", number |-> number, raised |-> "none",
                         value |-> IsVisible(layers, number)]
                   ELSE [op |-> "is_visible", number |-> number, raised |-> "KeyError"]
    /\ UNCHANGED <<parseVars, geomVars, rend, calls, entity>>

\* layers.get_css_color(number)
CallGetCssColor ==
    /\ pc = "idle"
    /\ answer = NoAnswer
    /\ \E number \in QueryNumbers :
         LET color == GetCssColor(layers, number)
         IN answer' = IF color = <<"KeyError">>
                      THEN [op |-> "get_css_color", number |-> number,
                            raised |-> "KeyError"]
                      ELSE [op |-> "get_css_color", number |-> number,
                            raised |-> "none", value |-> color]
    /\ UNCHANGED <<parseVars, geomVars, rend, calls, entity>>

NextLayers == CallIsVisible \/ CallGetCssColor

SpecLayers == InitLayers /\ [][NextLayers]_vars

---------------------------------------------------------------------------
(* One primitive and a layer set: a caller asks for the fragments.         *)

FragmentLayerNodes ==
    {LayerNode(n, 4, f[1], f[2]) :
        n \in {1, 93, 94}, f \in {<<"yes", "yes">>, <<"no", "yes">>, <<"yes", "no">>}}
    \cup {LayerNode(17, 4, "yes", "yes"), LayerNode(45, 16, "yes", "yes")}

FragmentPrimitives ==
    {[kind |-> "wire", x1 |-> -2, y1 |-> 1, x2 |-> 3, y2 |-> 2, width |-> w, layer |-> 1] :
        w \in {0, 1}}
    \cup {[kind |-> "smd", name |-> "1", x |-> 2, y |-> 2, dx |-> 1, dy |-> 2, layer |-> 1],
          [kind |-> "text", s |-> ">NAME", x |-> 1, y |-> 2, size |-> 1, layer |-> 1],
          [kind |-> "rectangle", x1 |-> 3, y1 |-> 1, x2 |-> 1, y2 |-> 2, layer |-> 1],
          [kind |-> "polygon", width |-> 1, layer |-> 1,
           vertices |-> <<<<1, 1>>, <<3, 1>>, <<2, 2>>>>],
          [kind |-> "circle", x |-> 3, y |-> 3, radius |-> 1, width |-> 1, layer |-> 1],
          [kind |-> "hole", x |-> 2, y |-> 1, drill |-> 1],
          [kind |-> "pad", name |-> "1", x |-> 2, y |-> -1, drill |-> 1, diameter |-> 2]}
    \cup {[kind |-> "pin", name |-> "P", x |-> 2, y |-> 1, length |-> "long",
           rotate |-> r, visible |-> v] : r \in {0, 90, 45}, v \in {TRUE, FALSE}}

Flips == {<<1, 1>>, <<1, -1>>, <<-1, 1>>, <<-1, -1>>}

\* offset and scale, as make_svg_doc would hand them on
FragmentContexts == {[offset |-> <<0, 0>>, scale |-> 1], [offset |-> <<7000, 6500>>, scale |-> 2]}

InitFragments ==
    /\ \E ns \in SeqsUpTo(FragmentLayerNodes, MaxLayers) :
         /\ doc = Drawing(1, 1, 0, 0, <<ns>>, <<SettingsNode>>, <<GridNode>>,
                          DefaultLibrary, DefaultSchematic, DefaultBoard)
         /\ layers = LayerSetFromXml(ns)
    /\ pc = "idle"
    /\ cls = None
    /\ outcome = "running"
    /\ result = NoneObject
    /\ settings = <<>> /\ grid = <<>>
    /\ packages = <<>> /\ symbols = <<>> /\ device_sets = <<>>
    /\ classes = <<>> /\ libraries = <<>> /\ parts = <<>> /\ sheets = <<>>
    /\ design_rules = NoneObject /\ autorouter_rules = NoneObject
    /\ \E p \in FragmentPrimitives : geom = <<p>>
    /\ bbox = NoBox
    /\ rend = NoRenderers /\ calls = <<>> /\ answer = NoAnswer
    /\ entity = NoneObject

\* geom[1].to_svg_fragments(offset, scale, flip, layers)
CallToSvgFragments ==
    /\ pc = "idle"
    /\ answer = NoAnswer
    /\ \E c \in FragmentContexts, flip \in Flips :
         answer' = [op |-> "to_svg_fragments", offset |-> c.offset, scale |-> c.scale,
                    flip |-> flip,
                    value |-> PrimitiveToSvgFragments(geom[1], c.offset, c.scale, flip,
                                                      layers)]
    /\ UNCHANGED <<parseVars, geomVars, rend, calls, entity>>

NextFragments == CallToSvgFragments

SpecFragments == InitFragments /\ [][NextFragments]_vars

---------------------------------------------------------------------------
(* Rendering: callers hold SVGRenderers over one container and one layer   *)
(* set and run make_svg_doc, their steps interleaved.                      *)

MaxCalls == 2

RenderPrimitives ==
    {[kind |-> "wire", x1 |-> -2, y1 |-> 1, x2 |-> 3, y2 |-> 2, width |-> 1, layer |-> 1],
     [kind |-> "wire", x1 |-> 3, y1 |-> 2, x2 |-> 1, y2 |-> -1, width |-> 0, layer |-> 1],
     [kind |-> "text", s |-> ">NAME", x |-> 1, y |-> -2, size |-> 1, layer |-> 1],
     [kind |-> "pad", name |-> "1", x |-> 2, y |-> -1, drill |-> 1, diameter |-> 2],
     [kind |-> "hole", x |-> -2, y |-> 1, drill |-> 1],
     [kind |-> "circle", x |-> 3, y |-> 3, radius |-> 1, width |-> 1, layer |-> 1],
     [kind |-> "pin", name |-> "P", x |-> -3, y |-> 1, length |-> "long", rotate |-> 180,
      visible |-> TRUE],
     [kind |-> "polygon", width |-> 1, layer |-> 1, vertices |-> <<>>]}

RenderLayerNodes ==
    {<<>>,
     <<LayerNode(1, 4, "yes", "yes"), LayerNode(17, 2, "yes", "yes"),
       LayerNode(45, 7, "yes", "yes"),
       LayerNode(93, 2, "yes", "yes"), LayerNode(94, 4, "yes", "yes")>>,
     <<LayerNode(1, 4, "no", "yes"), LayerNode(17, 2, "yes", "yes"),
       LayerNode(93, 2, "yes", "no"), LayerNode(94, 4, "yes", "yes")>>,
     <<LayerNode(1, 4, "yes", "yes")>>}

\* one caller: every scale, margin, flip, with and without the outline
RenderersOfOne ==
    {SVGRenderer(sc, m, f, abb) :
        sc \in {1, 2, 10}, m \in {0, 10}, f \in Flips, abb \in BOOLEAN}

\* several callers
RenderersOfMany ==
    {SVGRenderer(2, 10, <<1, -1>>, TRUE), SVGRenderer(2, 10, <<-1, 1>>, TRUE),
     SVGRenderer(1, 0, <<1, 1>>, FALSE)}

NoDoc == [tag |-> "none"]

\* the containers several callers render
RenderContainers ==
    {<<>>,
     <<[kind |-> "wire", x1 |-> -2, y1 |-> 1, x2 |-> 3, y2 |-> 2, width |-> 1, layer |-> 1]>>,
     <<[kind |-> "wire", x1 |-> -2, y1 |-> 1, x2 |-> 3, y2 |-> 2, width |-> 1, layer |-> 1],
       [kind |-> "pin", name |-> "P", x |-> -3, y |-> 1, length |-> "long", rotate |-> 180,
        visible |-> TRUE]>>,
     <<[kind |-> "text", s |-> ">NAME", x |-> 1, y |-> -2, size |-> 1, layer |-> 1],
       [kind |-> "pad", name |-> "1", x |-> 2, y |-> -1, drill |-> 1, diameter |-> 2]>>}

\* a call of make_svg_doc not yet begun
NewCall == [pc |-> "start", box |-> NoBox, children |-> <<>>, doc |-> NoDoc]

InitRender ==
    /\ \E ns \in RenderLayerNodes :
         /\ doc = Drawing(1, 1, 0, 0, <<ns>>, <<SettingsNode>>, <<GridNode>>,
                          DefaultLibrary, DefaultSchematic, DefaultBoard)
         /\ layers = LayerSetFromXml(ns)
    /\ pc = "idle"
    /\ cls = None
    /\ outcome = "running"
    /\ result = NoneObject
    /\ settings = <<>> /\ grid = <<>>
    /\ packages = <<>> /\ symbols = <<>> /\ device_sets = <<>>
    /\ classes = <<>> /\ libraries = <<>> /\ parts = <<>> /\ sheets = <<>>
    /\ design_rules = NoneObject /\ autorouter_rules = NoneObject
    /\ \/ /\ geom \in SeqsUpTo(RenderPrimitives, MaxPrims)
          /\ \E r \in RenderersOfOne : rend = <<r>>
       \/ /\ geom \in RenderContainers
          /\ rend \in {rs \in SeqsUpTo(RenderersOfMany, MaxCalls) : Len(rs) >= 2}
       \/ /\ geom \in RenderContainers
          /\ rend = NoRenderers
    /\ calls = [c \in 1..Len(rend) |-> NewCall]
    /\ bbox = NoBox
    /\ answer = NoAnswer
    /\ entity = NoneObject

\* the keyword arguments a caller may give to SVGRenderer
KeywordArguments ==
    {[given |-> g, values |-> SVGRenderer(2, 0, <<1, 1>>, abb)] :
        g \in SUBSET {"scale", "margin", "flip", "add_bounding_box"}, abb \in BOOLEAN}

\* renderer = SVGRenderer(geom, layers, **given)
ConstructRenderer ==
    /\ rend = NoRenderers
    /\ \E kw \in KeywordArguments :
         /\ rend' = <<SVGRendererOf(kw.given, kw.values)>>
         /\ answer' = [op |-> "SVGRenderer", given |-> kw.given, values |-> kw.values]
    /\ calls' = <<NewCall>>
    /\ UNCHANGED <<parseVars, geomVars, entity>>

\* (startx, starty), (endx, endy) = self.thing.bounding_box()
RenderBoundingBox ==
    \E c \in 1..Len(calls) :
        /\ calls[c].pc = "start"
        /\ LET box == GeometryBoundingBox(geom)
           IN calls' = [calls EXCEPT ![c] =
                 IF IsBox(box)
                 THEN [@ EXCEPT !.pc = "fragments", !.box = box]
                 ELSE [@ EXCEPT !.pc = "done",
                                !.doc = [tag |-> "raise", exception |-> box[1]]]]
        /\ UNCHANGED <<parseVars, geomVars, rend, answer, entity>>

\* to_svg_fragments taking the primitives off the container as it goes
RenderFragmentsConsuming ==
    \E c \in 1..Len(calls) :
        /\ calls[c].pc = "fragments"
        /\ LET r == rend[c]
               children == GeometryToSvgFragments(geom, RenderOffset(r, calls[c].box),
                                                  r.scale, r.flip, layers)
           IN calls' = [calls EXCEPT ![c] =
                 IF IsRaised(children)
                 THEN [@ EXCEPT !.pc = "done", !.doc = children[1]]
                 ELSE [@ EXCEPT !.pc = IF r.add_bounding_box THEN "insert" ELSE "root",
                                !.children = children]]
        /\ geom' = <<>>
        /\ UNCHANGED <<parseVars, bbox, rend, answer, entity>>

\* children = self.primitive.to_svg_fragments(offset, scale, flip, layers)
RenderFragments ==
    \E c \in 1..Len(calls) :
        /\ calls[c].pc = "fragments"
        /\ LET r == rend[c]
               children == GeometryToSvgFragments(geom, RenderOffset(r, calls[c].box),
                                                  r.scale, r.flip, layers)
           IN calls' = [calls EXCEPT ![c] =
                 IF IsRaised(children)
                 THEN [@ EXCEPT !.pc = "done", !.doc = children[1]]
                 ELSE [@ EXCEPT !.pc = IF r.add_bounding_box THEN "insert" ELSE "root",
                                !.children = children]]
        /\ UNCHANGED <<parseVars, geomVars, rend, answer, entity>>

\* children.insert(0, self.to_svg_bounding_box()), which asks the container
\* for its bounding box again
RenderInsert ==
    \E c \in 1..Len(calls) :
        /\ calls[c].pc = "insert"
        /\ LET box == GeometryBoundingBox(geom)
           IN calls' = [calls EXCEPT ![c] =
                 IF IsBox(box)
                 THEN [@ EXCEPT !.pc = "root",
                                !.children = <<ToSvgBoundingBox(rend[c], box)>> \o @]
                 ELSE [@ EXCEPT !.pc = "done",
                                !.doc = [tag |-> "raise", exception |-> box[1]]]]
        /\ UNCHANGED <<parseVars, geomVars, rend, answer, entity>>

\* return E.svg(*children, width=..., height=...)
RenderReturn ==
    \E c \in 1..Len(calls) :
        /\ calls[c].pc = "root"
        /\ calls' = [calls EXCEPT ![c] =
                        [@ EXCEPT !.pc = "done",
                                  !.doc = SvgRoot(rend[c], calls[c].box, calls[c].children)]]
        /\ UNCHANGED <<parseVars, geomVars, rend, answer, entity>>

NextRender ==
    \/ ConstructRenderer
    \/ RenderBoundingBox
    \/ RenderFragments
    \/ RenderInsert
    \/ RenderReturn

SpecRender == InitRender /\ [][NextRender]_vars

---------------------------------------------------------------------------
(* Writing back: a caller holds an entity and calls to_xml or save on it.  *)
(* A method the class defines raises NotImplementedError; one that neither *)
(* the class nor its bases define is an AttributeError at the call.        *)

\* the classes of pyeagle/geometry.py that define to_xml (Primitive and
\* Geometry do not)
GeometryToXml ==
    {"Wire", "SMD", "Text", "Rectangle", "Pad", "Pin", "Polygon", "Hole", "Circle"}

\* the classes of pyeagle/layers.py that define to_xml
LayersToXml == {"LayerSet", "Layer"}

\* the classes of pyeagle/types.py that define to_xml
TypesToXml ==
    {"Package", "Symbol", "Gate", "DeviceSet", "Device", "Library", "Part", "Instance",
     "Sheet", "Schematic", "AutorouterRules", "DesignRules", "Bus", "Net", "Signal",
     "Board"}

\* the classes of pyeagle/types.py that define save
TypesSave == {"Library", "Schematic", "AutorouterRules", "DesignRules", "Board"}

\* the classes of pyeagle/types.py that define neither, nor inherit one
TypesWithoutToXml == {"Attribute", "Technology", "SignalClass", "Segment"}

EntityClasses == GeometryToXml \cup LayersToXml \cup TypesToXml \cup TypesWithoutToXml

\* entity.to_xml()
ToXml(e) ==
    IF e.cls \in GeometryToXml \cup LayersToXml \cup TypesToXml
    THEN "NotImplementedError"
    ELSE "AttributeError"

\* entity.save(f)
Save(e) == IF e.cls \in TypesSave THEN "NotImplementedError" ELSE "AttributeError"

InitWrite ==
    /\ doc = Drawing(1, 1, 0, 0, <<<<>>>>, <<SettingsNode>>, <<GridNode>>,
                     DefaultLibrary, DefaultSchematic, DefaultBoard)
    /\ layers = LayerSetFromXml(<<>>)
    /\ pc = "idle"
    /\ cls = None
    /\ outcome = "running"
    /\ result = NoneObject
    /\ settings = <<>> /\ grid = <<>>
    /\ packages = <<>> /\ symbols = <<>> /\ device_sets = <<>>
    /\ classes = <<>> /\ libraries = <<>> /\ parts = <<>> /\ sheets = <<>>
    /\ design_rules = NoneObject /\ autorouter_rules = NoneObject
    /\ geom = NoGeometry
    /\ bbox = NoBox
    /\ rend = NoRenderers /\ calls = <<>> /\ answer = NoAnswer
    /\ \E c \in EntityClasses, n \in Names : entity = [cls |-> c, name |-> n]

CallToXml ==
    /\ answer = NoAnswer
    /\ answer' = [op |-> "to_xml", on |-> entity, raised |-> ToXml(entity)]
    /\ UNCHANGED <<parseVars, geomVars, rend, calls, entity>>

CallSave ==
    /\ answer = NoAnswer
    /\ answer' = [op |-> "save", on |-> entity, raised |-> Save(entity)]
    /\ UNCHANGED <<parseVars, geomVars, rend, calls, entity>>

NextWrite == CallToXml \/ CallSave

SpecWrite == InitWrite /\ [][NextWrite]_vars

---------------------------------------------------------------------------
(* The views: a caller holds a Package or a Symbol, reads pads or pins,    *)
(* and may append to the primitive list between two reads.                 *)

\* the most primitives of a viewed package or symbol
MaxViewed == 3

\* [prim for prim in primitives[:n] if isinstance(prim, classes)]
RECURSIVE PrimitivesOfKinds(_, _, _)
PrimitivesOfKinds(prims, n, kinds) ==
    IF n = 0 THEN <<>>
    ELSE IF prims[n].kind \in kinds
         THEN Append(PrimitivesOfKinds(prims, n - 1, kinds), prims[n])
         ELSE PrimitivesOfKinds(prims, n - 1, kinds)

\* a view that takes the through-hole pads only
PackagePadsThroughHole(prims) == PrimitivesOfKinds(prims, Len(prims), {"pad"})

\* Package.pads
PackagePads(prims) == PrimitivesOfKinds(prims, Len(prims), {"pad", "smd"})

\* Symbol.pins
SymbolPins(prims) == PrimitivesOfKinds(prims, Len(prims), {"pin"})

ViewedPrimitives ==
    {[kind |-> "pad", name |-> "1", x |-> 2, y |-> -1, drill |-> 1, diameter |-> 2],
     [kind |-> "smd", name |-> "2", x |-> 2, y |-> 2, dx |-> 1, dy |-> 2, layer |-> 1],
     [kind |-> "wire", x1 |-> -2, y1 |-> 1, x2 |-> 3, y2 |-> 2, width |-> 1, layer |-> 1],
     [kind |-> "pin", name |-> "P", x |-> 2, y |-> 1, length |-> "long", rotate |-> 0,
      visible |-> TRUE],
     [kind |-> "pin", name |-> "Q", x |-> -3, y |-> 1, length |-> "point", rotate |-> 180,
      visible |-> TRUE]}

InitViews ==
    /\ doc = Drawing(0, 0, 0, 0, <<>>, <<>>, <<>>, DefaultLibrary, DefaultSchematic,
                     DefaultBoard)
    /\ pc = "idle"
    /\ cls = None
    /\ outcome = "running"
    /\ result = NoneObject
    /\ layers = <<>> /\ settings = <<>> /\ grid = <<>>
    /\ packages = <<>> /\ symbols = <<>> /\ device_sets = <<>>
    /\ classes = <<>> /\ libraries = <<>> /\ parts = <<>> /\ sheets = <<>>
    /\ design_rules = NoneObject /\ autorouter_rules = NoneObject
    /\ geom \in SeqsUpTo(ViewedPrimitives, MaxViewed - 1)
    /\ bbox = NoBox
    /\ rend = NoRenderers /\ calls = <<>> /\ answer = NoAnswer
    /\ \E c \in {"Package", "Symbol"} : entity = [cls |-> c, name |-> "A"]

\* package.pads
AccessPads ==
    /\ entity.cls = "Package"
    /\ answer' = [op |-> "pads", on |-> geom, value |-> PackagePads(geom)]
    /\ UNCHANGED <<parseVars, geomVars, rend, calls, entity>>

\* symbol.pins
AccessPins ==
    /\ entity.cls = "Symbol"
    /\ answer' = [op |-> "pins", on |-> geom, value |-> SymbolPins(geom)]
    /\ UNCHANGED <<parseVars, geomVars, rend, calls, entity>>

\* the caller's entity.primitives.append(p)
AppendPrimitive ==
    /\ Len(geom) < MaxViewed
    /\ \E p \in ViewedPrimitives : geom' = Append(geom, p)
    /\ UNCHANGED <<parseVars, bbox, renderVars>>

NextViews == AccessPads \/ AccessPins \/ AppendPrimitive

SpecViews == InitViews /\ [][NextViews]_vars

---------------------------------------------------------------------------
(* One pin: a caller builds it and asks for its bounding box.              *)

PinsOfEveryKind ==
    {[kind |-> "pin", name |-> "P", x |-> x, y |-> y, length |-> l, rotate |-> r,
      visible |-> TRUE] :
        x \in {-3, 0, 2}, y \in {-1, 1}, l \in {"point", "short", "middle", "long"},
        r \in {0, 90, 180, 270, 45}}

InitPin ==
    /\ doc = Drawing(0, 0, 0, 0, <<>>, <<>>, <<>>, DefaultLibrary, DefaultSchematic,
                     DefaultBoard)
    /\ pc = "idle"
    /\ cls = None
    /\ outcome = "running"
    /\ result = NoneObject
    /\ layers = <<>> /\ settings = <<>> /\ grid = <<>>
    /\ packages = <<>> /\ symbols = <<>> /\ device_sets = <<>>
    /\ classes = <<>> /\ libraries = <<>> /\ parts = <<>> /\ sheets = <<>>
    /\ design_rules = NoneObject /\ autorouter_rules = NoneObject
    /\ \E p \in PinsOfEveryKind : geom = <<p>>
    /\ bbox = NoBox
    /\ rend = NoRenderers /\ calls = <<>> /\ answer = NoAnswer
    /\ entity = NoneObject

\* geom[1].bounding_box()
CallPinBoundingBox ==
    /\ bbox = NoBox
    /\ bbox' = PinBoundingBox(geom[1])
    /\ UNCHANGED <<parseVars, geom, renderVars>>

NextPin == CallPinBoundingBox

SpecPin == InitPin /\ [][NextPin]_vars

---------------------------------------------------------------------------
(* One instance node: a caller hands it to Instance.from_xml.              *)

\* the most digits of a rot attribute
MaxDigits == 3

RotStrings ==
    {NoChars}
    \cup {pre \o ds : pre \in {<<"R">>, <<"M">>, <<"M", "R">>},
                      ds \in SeqsUpTo({"0", "1", "8", "9"}, MaxDigits)}

InitRot ==
    /\ \E rot \in RotStrings : doc = InstanceNode("A", "G", rot)
    /\ pc = "idle"
    /\ cls = None
    /\ outcome = "running"
    /\ result = NoneObject
    /\ layers = <<>> /\ settings = <<>> /\ grid = <<>>
    /\ packages = <<>> /\ symbols = <<>> /\ device_sets = <<>>
    /\ classes = <<>> /\ libraries = <<>> /\ parts = <<>> /\ sheets = <<>>
    /\ design_rules = NoneObject /\ autorouter_rules = NoneObject
    /\ geom = NoGeometry
    /\ bbox = NoBox
    /\ rend = NoRenderers /\ calls = <<>> /\ answer = NoAnswer
    /\ entity = NoneObject

\* Instance.from_xml(doc): int() raises ValueError on what is not a number
CallInstanceFromXml ==
    /\ pc = "idle"
    /\ pc' = "done"
    /\ IF InstanceOk(doc)
       THEN /\ result' = InstanceFromXml(doc, <<"Instance", 0, 1>>)
            /\ outcome' = "returned"
       ELSE /\ outcome' = "ValueError"
            /\ UNCHANGED result
    /\ UNCHANGED <<doc, cls, layers, settings, grid, packages, symbols, device_sets,
                   classes, libraries, parts, sheets, design_rules, autorouter_rules,
                   geomVars, renderVars>>

NextRot == CallInstanceFromXml

SpecRot == InitRot /\ [][NextRot]_vars

---------------------------------------------------------------------------
(* One node with primitive children (a package, symbol, sheet, segment or  *)
(* bus): a caller hands it to geometry_from_xml.                           *)

\* the most children of the node
MaxChildren == 3

ChildNodes ==
    {WireNode,
     [kind |-> "wire", x1 |-> 1, y1 |-> 1, x2 |-> 3, y2 |-> 2, width |-> 1, layer |-> 1],
     PadNode,
     PinNode,
     [kind |-> "circle", x |-> 3, y |-> 3, radius |-> 1, width |-> 1, layer |-> 1],
     [kind |-> "text", text |-> ">NAME", x |-> 1, y |-> 2, size |-> 1, layer |-> 1],
     [kind |-> "hole", x |-> 2, y |-> 1, drill |-> 1]}

ChildLayerNodes ==
    <<LayerNode(1, 4, "yes", "yes"), LayerNode(17, 2, "yes", "yes"),
      LayerNode(45, 7, "yes", "yes"), LayerNode(93, 2, "yes", "yes"),
      LayerNode(94, 4, "yes", "yes")>>

InitChildren ==
    /\ \E ns \in SeqsUpTo(ChildNodes, MaxChildren) : doc = [name |-> "A", prims |-> ns]
    /\ layers = LayerSetFromXml(ChildLayerNodes)
    /\ pc = "idle"
    /\ cls = None
    /\ outcome = "running"
    /\ result = NoneObject
    /\ settings = <<>> /\ grid = <<>>
    /\ packages = <<>> /\ symbols = <<>> /\ device_sets = <<>>
    /\ classes = <<>> /\ libraries = <<>> /\ parts = <<>> /\ sheets = <<>>
    /\ design_rules = NoneObject /\ autorouter_rules = NoneObject
    /\ geom = NoGeometry
    /\ bbox = NoBox
    /\ rend = NoRenderers /\ calls = <<>> /\ answer = NoAnswer
    /\ entity = NoneObject

\* Geometry.geometry_from_xml(doc), the primitives of the entity built
CallGeometryFromXml ==
    /\ pc = "idle"
    /\ pc' = "done"
    /\ geom' = GeometryFromXml(doc.prims)
    /\ UNCHANGED <<doc, cls, outcome, result, layers, settings, grid, packages,
                   symbols, device_sets, classes, libraries, parts, sheets,
                   design_rules, autorouter_rules, bbox, renderVars>>

NextChildren == CallGeometryFromXml

SpecChildren == InitChildren /\ [][NextChildren]_vars

---------------------------------------------------------------------------
(* What the documents say, read off the nodes alone *)

HasSharedChildren(d) == d.layers # <<>> /\ d.settings # <<>> /\ d.grid # <<>>

HasNamed(nodes, name) == \E i \in 1..Len(nodes) : nodes[i].name = name

\* the last node of the name: the one a name-keyed mapping ends up holding
LastNamed(nodes, name) ==
    CHOOSE i \in 1..Len(nodes) :
        nodes[i].name = name /\ \A j \in (i + 1)..Len(nodes) : nodes[j].name # name

ExactlyOneTag(d) ==
    /\ d.ndrawing = 1
    /\ <<d.nlibrary, d.nschematic, d.nboard>> \in {<<1, 0, 0>>, <<0, 1, 0>>, <<0, 0, 1>>}

TagKind(d) ==
    IF d.nlibrary = 1 THEN "Library" ELSE IF d.nschematic = 1 THEN "Schematic" ELSE "Board"

TagTotal(d) == IF d.ndrawing = 0 THEN 0 ELSE d.nlibrary + d.nschematic + d.nboard

\* a part names a library, device set or device the embedded libraries lack
PartNamesAbsent(p, sch) ==
    \/ ~HasNamed(sch.libraries, p.library)
    \/ LET lib == sch.libraries[LastNamed(sch.libraries, p.library)]
       IN \/ ~HasNamed(lib.devicesets, p.deviceset)
          \/ LET ds == lib.devicesets[LastNamed(lib.devicesets, p.deviceset)]
             IN ~HasNamed(ds.devices, p.device)

---------------------------------------------------------------------------
(* Claims *)

C2_UnsupportedKindRaises ==
    (pc = "done" /\ HasSharedChildren(doc) /\ TagTotal(doc) # 1) =>
        (outcome = "NotImplementedError" /\ result = NoneObject)

\* the devices of a parsed library against the nodes they were built from
LibraryDevicesDegrade(lib, node) ==
    \A i \in 1..Len(lib.device_sets) :
        LET ds == lib.device_sets[i].v
            dsnode == node.devicesets[LastNamed(node.devicesets, ds.name)]
        IN /\ \A j \in 1..Len(dsnode.devices) : DictHas(ds.devices, dsnode.devices[j].name)
           /\ \A j \in 1..Len(ds.devices) :
                LET dev == ds.devices[j].v
                    dnode == dsnode.devices[LastNamed(dsnode.devices, dev.name)]
                IN IF dnode.package # NoAttr /\ HasNamed(node.packages, dnode.package)
                   THEN dev.package.name = dnode.package
                   ELSE /\ dev.package.cls = "Package"
                        /\ dev.package.name = ""
                        /\ dev.package.primitives = <<>>

\* C3: a device whose package name is no key of the library's packages, or
\* that names no package, does not fail the parse: the library is returned,
\* every device node has its device, and such a device holds a placeholder
\* package named "" with no primitives.
C3_MissingPackageDegrades ==
    (pc = "done" /\ cls = "Library" /\ HasSharedChildren(doc)) =>
        /\ outcome = "returned"
        /\ \A i \in 1..Len(doc.library.devicesets) :
              DictHas(result.device_sets, doc.library.devicesets[i].name)
        /\ LibraryDevicesDegrade(result, doc.library)

C3_Witness ==
    /\ pc = "done" /\ cls = "Library" /\ outcome = "returned"
    /\ Len(result.packages) = 1 /\ result.packages[1].v.primitives # <<>>
    /\ Len(result.device_sets) = 1
    /\ LET devs == result.device_sets[1].v.devices
           nodes == doc.library.devicesets[1].devices
       IN /\ Len(devs) = 2 /\ Len(nodes) = 2
          /\ nodes[1].package = "A" /\ devs[1].v.package = result.packages[1].v
          /\ nodes[2].package = "B" /\ devs[2].v.package.name = ""

\* C4: if a part of a schematic names a library, device set or device the
\* embedded libraries do not hold, the load fails and no Schematic, partial
\* or not, is returned.
C4_UnresolvedPartFails ==
    (/\ pc = "done" /\ cls = "Schematic" /\ HasSharedChildren(doc)
     /\ \E i \in 1..Len(doc.schematic.parts) :
            PartNamesAbsent(doc.schematic.parts[i], doc.schematic)) =>
        (outcome = "KeyError" /\ result = NoneObject)

C4_Witness ==
    /\ pc = "done" /\ cls = "Schematic" /\ outcome = "KeyError"
    /\ Len(doc.schematic.parts) = 2 /\ Len(libraries) = 1
    /\ ~PartNamesAbsent(doc.schematic.parts[1], doc.schematic)
    /\ PartNamesAbsent(doc.schematic.parts[2], doc.schematic)
    /\ HasNamed(doc.schematic.libraries, doc.schematic.parts[2].library)

\* C5: every part of a parsed schematic holds the very device set
\* schematic.libraries[L].device_sets[S] and the very device
\* device_set.devices[D] its node names: the entities built from the last
\* library node named L and its device set S, not copies.
C5_PartSharesLibraryEntities ==
    (pc = "done" /\ cls = "Schematic" /\ outcome = "returned") =>
        \A i \in 1..Len(result.parts) :
            LET p == result.parts[i].v
                node == doc.schematic.parts[LastNamed(doc.schematic.parts, p.name)]
                L == LastNamed(doc.schematic.libraries, node.library)
                ds == DictGet(DictGet(result.libraries, node.library).device_sets,
                              node.deviceset)
            IN /\ p.device_set = ds
               /\ p.device_set.id =
                    <<"DeviceSet", L,
                      LastNamed(doc.schematic.libraries[L].devicesets, node.deviceset)>>
               /\ p.device = DictGet(p.device_set.devices, node.device)
               /\ p.device.id[1] = "Device" /\ p.device.id[2] = L

C5_Witness ==
    /\ pc = "done" /\ cls = "Schematic" /\ outcome = "returned"
    /\ Len(doc.schematic.libraries) = 2 /\ Len(result.libraries) = 1
    /\ Len(result.parts) = 2
    /\ result.parts[1].v.device_set.id = <<"DeviceSet", 2, 1>>
    /\ result.parts[2].v.device.id = result.parts[1].v.device.id

\* an instance names a part the schematic lacks, or a gate the device set
\* of its part lacks
InstanceNamesAbsent(inst, sch) ==
    \/ ~HasNamed(sch.parts, inst.part)
    \/ LET p == sch.parts[LastNamed(sch.parts, inst.part)]
       IN /\ ~PartNamesAbsent(p, sch)
          /\ LET lib == sch.libraries[LastNamed(sch.libraries, p.library)]
                 ds == lib.devicesets[LastNamed(lib.devicesets, p.deviceset)]
             IN ~HasNamed(ds.gates, inst.gate)

\* C6: a sheet instance that names a part the schematic does not hold, or a
\* gate its part's device set does not hold, makes the parse fail: no
\* schematic is returned, so the instance is in no sheet.instances.
C6_DanglingInstanceFails ==
    (/\ pc = "done" /\ cls = "Schematic" /\ HasSharedChildren(doc)
     /\ \E s \in 1..Len(doc.schematic.sheets) :
          \E i \in 1..Len(doc.schematic.sheets[s].instances) :
            InstanceNamesAbsent(doc.schematic.sheets[s].instances[i], doc.schematic)) =>
        (outcome # "returned" /\ result = NoneObject)

\* the gates of a parsed library against the gate nodes of its device sets
LibraryGatesUnresolved(lib, node) ==
    \A i \in 1..Len(lib.device_sets) :
        LET ds == lib.device_sets[i].v
            dsnode == node.devicesets[LastNamed(node.devicesets, ds.name)]
        IN /\ \A j \in 1..Len(dsnode.gates) : DictHas(ds.gates, dsnode.gates[j].name)
           /\ \A j \in 1..Len(ds.gates) : ds.gates[j].v.symbol = NoneObject

\* C7: every gate of every device set of a parsed document holds the
\* unresolved marker as its symbol, whether or not its symbol name is a key
\* of the library's symbols, and every gate node yields its gate: a library
\* drawing never fails over a gate's symbol.
C7_GateSymbolUnresolved ==
    (pc = "done" /\ HasSharedChildren(doc)) =>
        /\ (cls = "Library" =>
              outcome = "returned" /\ LibraryGatesUnresolved(result, doc.library))
        /\ (cls = "Schematic" /\ outcome = "returned" =>
              \A i \in 1..Len(result.libraries) :
                  LibraryGatesUnresolved(result.libraries[i].v,
                      doc.schematic.libraries[result.libraries[i].v.id[2]]))
        /\ (cls = "Board" /\ outcome = "returned" =>
              \A i \in 1..Len(result.libraries) :
                  LibraryGatesUnresolved(result.libraries[i].v,
                      doc.board.libraries[result.libraries[i].v.id[2]]))

C7_Witness ==
    /\ pc = "done" /\ cls = "Library" /\ outcome = "returned"
    /\ Len(result.symbols) = 1 /\ Len(result.device_sets) = 1
    /\ LET gates == result.device_sets[1].v.gates
           nodes == doc.library.devicesets[1].gates
       IN /\ Len(gates) = 2 /\ Len(nodes) = 2
          /\ DictHas(result.symbols, nodes[1].symbol)
          /\ ~DictHas(result.symbols, nodes[2].symbol)
          /\ gates[1].v.symbol = NoneObject /\ gates[2].v.symbol = NoneObject

\* a mapping keyed by name against the nodes it was built from: each key is
\* its entity's name, no key twice, one key per name among the nodes, and
\* the entity of a name is the one built from the last node of that name
NamedDictOk(d, nodes) ==
    /\ \A i \in 1..Len(d) : d[i].k = d[i].v.name
    /\ \A i, j \in 1..Len(d) : d[i].k = d[j].k => i = j
    /\ DictKeys(d) = {nodes[i].name : i \in 1..Len(nodes)}
    /\ \A i \in 1..Len(d) : d[i].v.id[Len(d[i].v.id)] = LastNamed(nodes, d[i].k)

LibraryMappingsOk(lib, node) ==
    /\ NamedDictOk(lib.packages, node.packages)
    /\ NamedDictOk(lib.symbols, node.symbols)
    /\ NamedDictOk(lib.device_sets, node.devicesets)
    /\ \A i \in 1..Len(lib.device_sets) :
        LET ds == lib.device_sets[i].v
            dsnode == node.devicesets[LastNamed(node.devicesets, ds.name)]
        IN /\ NamedDictOk(ds.gates, dsnode.gates)
           /\ NamedDictOk(ds.devices, dsnode.devices)
           /\ \A j \in 1..Len(ds.devices) :
                NamedDictOk(ds.devices[j].v.technologies,
                    dsnode.devices[LastNamed(dsnode.devices, ds.devices[j].k)].technologies)

EmbeddedMappingsOk(libs, nodes) ==
    /\ NamedDictOk(libs, nodes)
    /\ \A i \in 1..Len(libs) :
          LibraryMappingsOk(libs[i].v, nodes[LastNamed(nodes, libs[i].k)])

\* C8: in every name-keyed mapping of a parsed document (packages, symbols,
\* device sets, gates, devices, technologies, libraries, parts, nets,
\* busses) each key is the name of its entity, no name occurs twice, and
\* where several nodes share a name the mapping holds the entity built from
\* the last of them.
C8_NameKeyedLastWins ==
    (pc = "done" /\ outcome = "returned") =>
        /\ (cls = "Library" => LibraryMappingsOk(result, doc.library))
        /\ (cls = "Schematic" =>
              /\ EmbeddedMappingsOk(result.libraries, doc.schematic.libraries)
              /\ NamedDictOk(result.parts, doc.schematic.parts)
              /\ \A s \in 1..Len(result.sheets) :
                    /\ NamedDictOk(result.sheets[s].nets, doc.schematic.sheets[s].nets)
                    /\ NamedDictOk(result.sheets[s].busses, doc.schematic.sheets[s].busses))
        /\ (cls = "Board" => EmbeddedMappingsOk(result.libraries, doc.board.libraries))

C8_Witness ==
    /\ pc = "done" /\ cls = "Library" /\ outcome = "returned"
    /\ Len(doc.library.packages) = 2
    /\ doc.library.packages[1].name = doc.library.packages[2].name
    /\ doc.library.packages[1] # doc.library.packages[2]
    /\ Len(result.packages) = 1
    /\ result.packages[1].v.id = <<"Package", 0, 2>>

Contains(outer, inner) ==
    /\ outer[1][1] <= inner[1][1] /\ outer[1][2] <= inner[1][2]
    /\ outer[2][1] >= inner[2][1] /\ outer[2][2] >= inner[2][2]

\* C9: once the bounding box of a non-empty container is computed, it
\* contains the bounding box of each of its primitives; and it is computed
\* whenever every primitive has one.
C9_ContainerBoxContainsPrimitives ==
    (bbox # NoBox /\ geom # <<>>) =>
        /\ (IsBox(bbox) =>
              \A i \in 1..Len(geom) :
                  /\ IsBox(PrimitiveBoundingBox(geom[i]))
                  /\ Contains(bbox, PrimitiveBoundingBox(geom[i])))
        /\ ((\A i \in 1..Len(geom) : IsBox(PrimitiveBoundingBox(geom[i]))) => IsBox(bbox))

C9_Witness ==
    /\ IsBox(bbox) /\ Len(geom) = 2
    /\ LET a == PrimitiveBoundingBox(geom[1])
           b == PrimitiveBoundingBox(geom[2])
       IN /\ ~Contains(a, b) /\ ~Contains(b, a)
          /\ b[2][1] > a[2][1] /\ b[2][1] > 0

\* C10: the bounding box of a non-empty container is exactly the least x1,
\* least y1, greatest x2 and greatest y2 over the boxes of its primitives;
\* the seed (0,0) has no part in it.
C10_ContainerBoxIsExactMinMax ==
    (IsBox(bbox) /\ geom # <<>>) =>
        LET boxes == [i \in 1..Len(geom) |-> PrimitiveBoundingBox(geom[i])]
        IN bbox = <<<<SeqMin([i \in 1..Len(geom) |-> boxes[i][1][1]]),
                      SeqMin([i \in 1..Len(geom) |-> boxes[i][1][2]])>>,
                    <<SeqMax([i \in 1..Len(geom) |-> boxes[i][2][1]]),
                      SeqMax([i \in 1..Len(geom) |-> boxes[i][2][2]])>>>>

\* the last layer node of the number: the one the layer set ends up holding
LastNumbered(nodes, number) ==
    CHOOSE i \in 1..Len(nodes) :
        nodes[i].number = number /\ \A j \in (i + 1)..Len(nodes) : nodes[j].number # number

\* C14: for every layer a layer set defines, is_visible(number) is true
\* exactly when the layer's active flag and its visible flag are both true,
\* and after parsing each flag is true exactly when the attribute of the
\* layer's node is the string "yes".
C14_VisibleIffActiveAndVisible ==
    LET nodes == doc.layers[1]
    IN (answer.op = "is_visible" /\ \E i \in 1..Len(nodes) : nodes[i].number = answer.number) =>
         LET node == nodes[LastNumbered(nodes, answer.number)]
             layer == DictGet(layers, answer.number)
         IN /\ answer.raised = "none"
            /\ layer.visible = (node.visible = "yes")
            /\ layer.active = (node.active = "yes")
            /\ answer.value = (layer.active /\ layer.visible)
            /\ answer.value = (node.visible = "yes" /\ node.active = "yes")

C14_Witness ==
    /\ answer.op = "is_visible" /\ answer.raised = "none" /\ ~answer.value
    /\ Len(doc.layers[1]) = 2
    /\ doc.layers[1][1].number = answer.number /\ doc.layers[1][2].number = answer.number
    /\ doc.layers[1][1].visible = "yes" /\ doc.layers[1][1].active = "yes"
    /\ doc.layers[1][2].visible = "yes" /\ doc.layers[1][2].active = "no"

\* C15: for every layer number, defined in the layer set or not,
\* get_css_color raises nothing; it returns a color string when the layer
\* is defined, active and visible and the no-color value otherwise.
C15_ColorOrAbsenceNeverRaises ==
    LET nodes == doc.layers[1]
    IN answer.op = "get_css_color" =>
         /\ answer.raised = "none"
         /\ IF \E i \in 1..Len(nodes) :
                  /\ nodes[i].number = answer.number
                  /\ \A j \in (i + 1)..Len(nodes) : nodes[j].number # answer.number
                  /\ nodes[i].visible = "yes" /\ nodes[i].active = "yes"
            THEN answer.value # NoColor
            ELSE answer.value = NoColor

\* the flags of the layer of the number, as its last node gives them; no
\* flags when no node defines the layer
LayerFlags(nodes, number) ==
    IF \E i \in 1..Len(nodes) : nodes[i].number = number
    THEN LET node == nodes[LastNumbered(nodes, number)]
         IN <<node.visible = "yes", node.active = "yes">>
    ELSE <<>>

\* C13: a wire, surface-mount pad, text, rectangle, polygon or circle whose
\* layer has visible=false or active=false gives no fragments, whatever
\* the offset, scale and flip; when its layer is visible and active it
\* gives at least one (so does a wire of positive width).
C13_FragmentsGatedByLayer ==
    (/\ answer.op = "to_svg_fragments"
     /\ geom[1].kind \in {"wire", "smd", "text", "rectangle", "polygon", "circle"}
     /\ LayerFlags(doc.layers[1], geom[1].layer) # <<>>) =>
        IF LayerFlags(doc.layers[1], geom[1].layer) = <<TRUE, TRUE>>
        THEN ~IsRaised(answer.value) /\ Len(answer.value) >= 1
        ELSE answer.value = <<>>

C13_Witness ==
    /\ answer.op = "to_svg_fragments"
    /\ geom[1].kind = "wire" /\ geom[1].width > 0
    /\ LayerFlags(doc.layers[1], 1) = <<TRUE, TRUE>>
    /\ Len(doc.layers[1]) = 2 /\ doc.layers[1][1].number = 1
    /\ doc.layers[1][1].visible = "no"
    /\ Len(answer.value) = 1 /\ answer.value[1].tag = "line"
    /\ answer.flip = <<-1, 1>> /\ answer.scale = 2

\* C20: rendering a pin gives a line exactly when the symbols layer (94)
\* is active and visible and a circle exactly when the pins layer (93) is
\* active and visible, each whatever the other, so it gives 0, 1 or 2
\* fragments; the pin's own visibility attribute has no part in it.
C20_PinFragmentsByFixedLayers ==
    (answer.op = "to_svg_fragments" /\ geom[1].kind = "pin") =>
        /\ ~IsRaised(answer.value)
        /\ Len(answer.value) \in {0, 1, 2}
        /\ (\E i \in 1..Len(answer.value) : answer.value[i].tag = "line")
             <=> LayerFlags(doc.layers[1], SymbolsLayer) = <<TRUE, TRUE>>
        /\ (\E i \in 1..Len(answer.value) : answer.value[i].tag = "circle")
             <=> LayerFlags(doc.layers[1], PinsLayer) = <<TRUE, TRUE>>

\* the calls of make_svg_doc that have returned a document
Returned == {c \in 1..Len(calls) : calls[c].pc = "done" /\ calls[c].doc.tag = "svg"}

\* C11: a container with no primitives has the bounding box ((0, 0), (0, 0)),
\* and every rendering of it returns a root whose width and height are
\* twice the margin.
C11_EmptyContainerRendersMargins ==
    geom = <<>> =>
        \A c \in 1..Len(calls) :
            /\ calls[c].pc # "start" => calls[c].box = <<<<0, 0>>, <<0, 0>>>>
            /\ calls[c].pc = "done" =>
                 /\ calls[c].doc.tag = "svg"
                 /\ calls[c].doc.width = 2 * rend[c].margin
                 /\ calls[c].doc.height = 2 * rend[c].margin

C11_Witness ==
    /\ geom = <<>>
    /\ \E c \in Returned : rend[c].margin = 10 /\ rend[c].scale = 10 /\ calls[c].doc.width = 20

\* C12: the width and height of the root a rendering returns are the width
\* and height the same container, layer set, scale and margin give under
\* each of the four flips.
C12_RootSizeSameForEveryFlip ==
    \A c \in Returned : \A f \in Flips :
        LET d == MakeSvgDoc([rend[c] EXCEPT !.flip = f], geom, layers)
        IN /\ d.tag = "svg"
           /\ d.width = calls[c].doc.width
           /\ d.height = calls[c].doc.height

C12_Witness ==
    \E c \in Returned :
        /\ rend[c].flip = <<-1, -1>>
        /\ geom # <<>>
        /\ GeometryBoundingBox(geom)[1][1] + GeometryBoundingBox(geom)[2][1] # 0
        /\ calls[c].doc.width > 2 * rend[c].margin

\* w is math.ceil(um * scale / 1000): the least integer not below it
IsCeilOf(w, um, scale) == (1000 * w >= um * scale) /\ (1000 * (w - 1) < um * scale)

\* C17: the root a rendering returns has width ceil((ex - sx) * s) + 2m and
\* height ceil((ey - sy) * s) + 2m for the bounding box ((sx, sy), (ex, ey))
\* of the container, and the outline, when there is one, is its first child,
\* placed at (m, m) with width ceil((ex - sx) * s) and height ceil((ey - sy) * s).
C17_RootAndOutlineSizes ==
    \A c \in Returned :
        LET box == GeometryBoundingBox(geom)
            r == rend[c]
            d == calls[c].doc
        IN /\ IsCeilOf(d.width - (2 * r.margin), box[2][1] - box[1][1], r.scale)
           /\ IsCeilOf(d.height - (2 * r.margin), box[2][2] - box[1][2], r.scale)
           /\ r.add_bounding_box =>
                /\ Len(d.children) >= 1
                /\ d.children[1].tag = "rect"
                /\ d.children[1].x = r.margin /\ d.children[1].y = r.margin
                /\ IsCeilOf(d.children[1].width, box[2][1] - box[1][1], r.scale)
                /\ IsCeilOf(d.children[1].height, box[2][2] - box[1][2], r.scale)

C17_Witness ==
    \E c \in Returned :
        LET box == GeometryBoundingBox(geom)
        IN /\ rend[c].add_bounding_box
           /\ rend[c].margin = 10
           /\ ((box[2][1] - box[1][1]) * rend[c].scale) % 1000 # 0
           /\ ((box[2][2] - box[1][2]) * rend[c].scale) % 1000 # 0

\* C19: rendering leaves the container and the layer set as they were, and
\* however the steps of the calls of make_svg_doc interleave, each call ends
\* as it does when it runs alone from its first line to its last.
C19_RenderingIsReadOnly ==
    /\ [](\A c \in 1..Len(calls) :
             calls[c].pc = "done" => calls[c].doc = MakeSvgDoc(rend[c], geom, layers))
    /\ [][geom' = geom /\ layers' = layers /\ (rend = NoRenderers \/ rend' = rend)]_vars

C19_Witness ==
    /\ Len(calls) >= 2
    /\ geom # <<>>
    /\ calls[1].pc = "done" /\ calls[1].doc.tag = "svg" /\ Len(calls[1].doc.children) >= 2
    /\ calls[2].pc = "insert"

\* C16: to_xml and save, called on any entity, fail with NotImplementedError
\* and leave the entity as it was.
C16_WritingIsNotImplemented ==
    answer.op \in {"to_xml", "save"} =>
        /\ answer.raised = "NotImplementedError"
        /\ entity = answer.on

\* C18: what pads gives is the sub-sequence of the pads and surface-mount
\* pads of the primitive list as it is at the access, what pins gives is the
\* sub-sequence of its pins, both in the order of the list, and an access
\* leaves the list as it was.
C18_ViewsAreSubSequences ==
    /\ [](/\ answer.op = "pads" =>
               answer.value = SelectSeq(answer.on, LAMBDA p : p.kind \in {"pad", "smd"})
          /\ answer.op = "pins" =>
               answer.value = SelectSeq(answer.on, LAMBDA p : p.kind = "pin"))
    /\ [][answer' # answer => (geom' = geom /\ answer'.on = geom)]_vars

C18_Witness ==
    /\ answer.op = "pads"
    /\ Len(geom) = 3 /\ Len(answer.value) = 2
    /\ answer.value[1].kind = "smd" /\ answer.value[2].kind = "pad"
    /\ geom[2].kind = "wire"

\* C23: the settings of the entity returned hold every attribute name and
\* value of every setting child of the settings node, and its grid and layer
\* set are those of the grid and layers nodes of the same drawing.
C23_SettingsHoldEveryPair ==
    (pc = "done" /\ outcome = "returned") =>
        /\ \A i \in 1..Len(doc.settings[1].settings) :
             LET attrib == doc.settings[1].settings[i].attrib
             IN \A j \in 1..Len(attrib) :
                  /\ DictHas(result.settings, attrib[j].k)
                  /\ DictGet(result.settings, attrib[j].k) = attrib[j].v
        /\ result.grid = GridFromXml(doc.grid[1])
        /\ result.layers = LayerSetFromXml(doc.layers[1])

\* C24: the steps of a parse come in one order.  In a library the packages
\* are all built before the symbols and the symbols before the device sets,
\* so the device sets resolve against the whole package mapping; in a
\* schematic the embedded libraries are all built before the parts and the
\* parts before the sheets; in a board the embedded libraries are built
\* before the design rules and the autorouter rules.
C24_ParseStepsInOrder ==
    /\ [](/\ pc \in {"symbols", "devicesets"} =>
               packages = LibraryPackages(doc.library, 0)
          /\ pc = "devicesets" => symbols = LibrarySymbols(doc.library, 0)
          /\ pc \in {"parts", "sheets"} =>
               libraries = EmbeddedLibraries(doc.schematic.libraries, layers, settings, grid)
          /\ pc = "sheets" => parts = SchematicParts(doc.schematic.parts, libraries)
          /\ pc \in {"designrules", "autorouter"} =>
               libraries = EmbeddedLibraries(doc.board.libraries, layers, settings, grid))
    /\ [][/\ packages' # packages => (symbols = <<>> /\ device_sets = <<>>)
          /\ symbols' # symbols => (packages' = packages /\ device_sets = <<>>)
          /\ device_sets' # device_sets =>
               (packages' = packages /\ symbols' = symbols /\ pc = "devicesets")
          /\ libraries' # libraries =>
               (/\ parts = <<>> /\ sheets = <<>>
                /\ design_rules = NoneObject /\ autorouter_rules = NoneObject)
          /\ parts' # parts => (libraries' = libraries /\ sheets = <<>>)
          /\ sheets' # sheets => (libraries' = libraries /\ parts' = parts)
          /\ design_rules' # design_rules =>
               (libraries' = libraries /\ autorouter_rules = NoneObject)
          /\ autorouter_rules' # autorouter_rules => libraries' = libraries]_vars

\* a library whose device resolved a package of the mapping built before it
C24_Witness ==
    /\ pc = "library"
    /\ Len(packages) >= 2
    /\ \E i \in 1..Len(device_sets) :
         \E j \in 1..Len(device_sets[i].v.devices) :
           device_sets[i].v.devices[j].v.package.name \in DictKeys(packages)

\* the line of a pin: from its position, by its length category times the
\* grid unit, in the direction of its rotation (micrometres)
PinLineEnd(p) ==
    LET n == CASE p.length = "point" -> 0 [] p.length = "short" -> 1
               [] p.length = "middle" -> 2 [] p.length = "long" -> 3
        len == n * GridScale
    IN CASE p.rotate = 0 -> <<(1000 * p.x) + len, 1000 * p.y>>
         [] p.rotate = 90 -> <<1000 * p.x, (1000 * p.y) + len>>
         [] p.rotate = 180 -> <<(1000 * p.x) - len, 1000 * p.y>>
         [] p.rotate = 270 -> <<1000 * p.x, (1000 * p.y) - len>>

\* C26: the bounding box of a pin rotated by 0, 90, 180 or 270 is well
\* formed (its first point is not beyond its second on either axis) and
\* contains the origin marker (the position, give or take the origin radius
\* on both axes) and the whole line from the position to its end.
C26_PinBoxHoldsMarkerAndLine ==
    (bbox # NoBox /\ geom[1].rotate \in {0, 90, 180, 270}) =>
        LET p == geom[1]
            end == PinLineEnd(p)
        IN /\ IsBox(bbox)
           /\ bbox[1][1] <= bbox[2][1] /\ bbox[1][2] <= bbox[2][2]
           /\ Contains(bbox, <<<<(1000 * p.x) - PinOriginRadius, (1000 * p.y) - PinOriginRadius>>,
                               <<(1000 * p.x) + PinOriginRadius, (1000 * p.y) + PinOriginRadius>>>>)
           /\ Contains(bbox, <<<<1000 * p.x, 1000 * p.y>>, <<1000 * p.x, 1000 * p.y>>>>)
           /\ Contains(bbox, <<end, end>>)

\* C29: the bounding box of a container, empty or not, contains the origin;
\* so where every primitive lies strictly inside the quadrant of positive x
\* and y, the box starts at the origin and not at the least corner of the
\* primitives.
C29_ContainerBoxHoldsOrigin ==
    IsBox(bbox) =>
        /\ bbox[1][1] <= 0 /\ 0 <= bbox[2][1]
        /\ bbox[1][2] <= 0 /\ 0 <= bbox[2][2]
        /\ (/\ geom # <<>>
            /\ \A i \in 1..Len(geom) :
                 PrimitiveBoundingBox(geom[i])[1][1] > 0
                 /\ PrimitiveBoundingBox(geom[i])[1][2] > 0) =>
             (/\ bbox[1] = <<0, 0>>
              /\ \A i \in 1..Len(geom) : bbox[1] # PrimitiveBoundingBox(geom[i])[1])

C29_Witness ==
    /\ IsBox(bbox) /\ Len(geom) = 2
    /\ \A i \in 1..Len(geom) :
         PrimitiveBoundingBox(geom[i])[1][1] > 0 /\ PrimitiveBoundingBox(geom[i])[1][2] > 0
    /\ bbox[1] = <<0, 0>> /\ bbox[2][1] > 0

\* C27: an instance whose rot is R and a number of degrees has that number
\* as its angle and is not mirrored; one whose rot is M and a number of
\* degrees has that number as its angle and is mirrored; one without rot has
\* the angle 0 and is not mirrored.
C27_RotationDecodesLetterAndDegrees ==
    (pc = "done" /\ doc.rot = NoChars =>
        (outcome = "returned" /\ result.rotate = 0 /\ ~result.mirrored))
    /\ (pc = "done" /\ doc.rot # NoChars /\ IntOk(Tail(doc.rot)) =>
          /\ outcome = "returned"
          /\ result.rotate = ParseDigits(Tail(doc.rot))
          /\ result.mirrored = (doc.rot[1] = "M"))

\* how many elements of a sequence are of one kind
CountOfKind(seq, kind) == Cardinality({i \in 1..Len(seq) : seq[i].kind = kind})

\* C28: the container parsed from a node holds, for each of the nine kinds
\* of primitive, as many primitives as the node has children of that kind.
C28_EveryKindOfChildParsed ==
    pc = "done" =>
        \A kind \in {"wire", "pad", "smd", "text", "rectangle", "polygon", "hole",
                     "circle", "pin"} :
            CountOfKind(geom, kind) = CountOfKind(doc.prims, kind)

\* the kinds in the order the primitive list groups them
KindOrder == <<"wire", "smd", "text", "rectangle", "polygon", "hole", "pad", "pin">>

KindRank(kind) == CHOOSE r \in 1..Len(KindOrder) : KindOrder[r] = kind

OfKind(seq, kind) == SelectSeq(seq, LAMBDA e : e.kind = kind)

\* the orders of the same children that keep the document order inside each kind
Interleavings(nodes) ==
    LET n == Len(nodes)
        perms == {f \in [1..n -> 1..n] : \A i, j \in 1..n : f[i] = f[j] => i = j}
        all == {[i \in 1..n |-> nodes[f[i]]] : f \in perms}
    IN {ns \in all : \A r \in 1..Len(KindOrder) :
                        OfKind(ns, KindOrder[r]) = OfKind(nodes, KindOrder[r])}

\* C30: the primitive list parsed from a node is grouped by kind in the order
\* wire, smd, text, rectangle, polygon, hole, pad, pin, with the document
\* order kept inside each kind; so every other interleaving of the same
\* children parses to the same list and renders to the same fragments.
C30_PrimitivesGroupedByKind ==
    pc = "done" =>
        /\ \A i, j \in 1..Len(geom) :
             i < j => KindRank(geom[i].kind) <= KindRank(geom[j].kind)
        /\ \A r \in 1..Len(KindOrder) :
             LET sel == OfKind(doc.prims, KindOrder[r])
             IN OfKind(geom, KindOrder[r]) = [i \in 1..Len(sel) |-> PrimitiveFromXml(sel[i])]
        /\ \A ns \in Interleavings(doc.prims) :
             /\ GeometryFromXml(ns) = geom
             /\ GeometryToSvgFragments(GeometryFromXml(ns), <<7000, 6500>>, 2, <<1, -1>>,
                                       layers)
                  = GeometryToSvgFragments(geom, <<7000, 6500>>, 2, <<1, -1>>, layers)

C30_Witness ==
    /\ pc = "done"
    /\ Len(doc.prims) = 3
    /\ doc.prims[1].kind = "pin" /\ doc.prims[2].kind = "wire" /\ doc.prims[3].kind = "wire"
    /\ doc.prims[2] # doc.prims[3]
    /\ geom[3].kind = "pin"
    /\ geom[1] = PrimitiveFromXml(doc.prims[2]) /\ geom[2] = PrimitiveFromXml(doc.prims[3])
    /\ Cardinality(Interleavings(doc.prims)) = 3

\* the fragments of the primitives in the document call c returned: its
\* children, but for the outline
FragmentsOf(c) ==
    IF rend[c].add_bounding_box THEN Tail(calls[c].doc.children) ELSE calls[c].doc.children

\* the fragments primitive i gives on its own, in the context of call c
OwnFragments(c, i) ==
    PrimitiveToSvgFragments(geom[i], RenderOffset(rend[c], GeometryBoundingBox(geom)),
                            rend[c].scale, rend[c].flip, layers)

\* how many fragments the primitives before primitive i give
RECURSIVE FragmentsBefore(_, _)
FragmentsBefore(c, i) ==
    IF i = 1 THEN 0 ELSE FragmentsBefore(c, i - 1) + Len(OwnFragments(c, i - 1))

\* C21: the fragments of a rendered container are the fragments of its
\* primitives, each computed on its own with the same offset, scale, flip
\* and layer set, one primitive after the other in the order of the
\* primitive list: none dropped, none twice, none out of order.
C21_FragmentsConcatenateInOrder ==
    \A c \in Returned :
        /\ Len(FragmentsOf(c)) = FragmentsBefore(c, Len(geom) + 1)
        /\ \A i \in 1..Len(geom) : \A k \in 1..Len(OwnFragments(c, i)) :
             FragmentsOf(c)[FragmentsBefore(c, i) + k] = OwnFragments(c, i)[k]

C21_Witness ==
    \E c \in Returned :
        /\ Len(geom) = 2
        /\ geom[1].kind = "pin" /\ geom[2].kind = "wire"
        /\ Len(OwnFragments(c, 1)) = 2 /\ Len(OwnFragments(c, 2)) = 1
        /\ FragmentsOf(c)[3].tag = "line" /\ FragmentsOf(c)[2].tag = "circle"

\* C22: the outline is in the document only when the caller gave the option
\* that asks for it: then it is the first child, the only outline, and the
\* fragments of the primitives follow; a renderer built without the option
\* gives a document of the fragments of the primitives alone.
C22_OutlineOnlyOnRequest ==
    answer.op = "SVGRenderer" =>
        \A c \in Returned :
            LET children == calls[c].doc.children
                outlines == {k \in 1..Len(children) :
                               children[k].tag = "rect" /\ children[k].stroke = "red"}
                fragments == GeometryToSvgFragments(
                                 geom, RenderOffset(rend[c], GeometryBoundingBox(geom)),
                                 rend[c].scale, rend[c].flip, layers)
            IN IF "add_bounding_box" \in answer.given /\ answer.values.add_bounding_box
               THEN outlines = {1} /\ Tail(children) = fragments
               ELSE outlines = {} /\ children = fragments

\* where the renderer places the native coordinate v (millimetres) of an
\* axis whose box runs from start to end (micrometres): by the distance
\* from the start, or from the end when the axis is flipped, scaled, plus
\* the margin (thousandths of a device unit)
Placed(v, flip, start, end, r) ==
    ((IF flip = 1 THEN (1000 * v) - start ELSE end - (1000 * v)) * r.scale)
    + (1000 * r.margin)

InDrawingArea(at, start, end, r) ==
    (1000 * r.margin <= at) /\ (at <= (1000 * r.margin) + ((end - start) * r.scale))

\* C25: every end of a wire and every centre of a pad, hole or circle is
\* placed by its distance from the start of the bounding box (from its end
\* on a flipped axis), scaled, plus the margin: never at a negative
\* coordinate, never outside the drawing area inside the margins.
C25_PointsStayInsideDrawingArea ==
    \A c \in Returned :
        LET r == rend[c]
            box == GeometryBoundingBox(geom)
            X(v) == Placed(v, r.flip[1], box[1][1], box[2][1], r)
            Y(v) == Placed(v, r.flip[2], box[1][2], box[2][2], r)
            InX(at) == InDrawingArea(at, box[1][1], box[2][1], r)
            InY(at) == InDrawingArea(at, box[1][2], box[2][2], r)
        IN \A i \in 1..Len(geom) : \A k \in 1..Len(OwnFragments(c, i)) :
             LET p == geom[i]
                 f == FragmentsOf(c)[FragmentsBefore(c, i) + k]
             IN /\ p.kind = "wire" =>
                     /\ f.x1 = X(p.x1) /\ f.y1 = Y(p.y1) /\ f.x2 = X(p.x2) /\ f.y2 = Y(p.y2)
                     /\ InX(f.x1) /\ InY(f.y1) /\ InX(f.x2) /\ InY(f.y2)
                /\ p.kind \in {"pad", "hole", "circle"} =>
                     /\ f.cx = X(p.x) /\ f.cy = Y(p.y)
                     /\ InX(f.cx) /\ InY(f.cy)

C25_Witness ==
    \E c \in Returned :
        /\ rend[c].flip = <<-1, -1>> /\ rend[c].margin = 10 /\ rend[c].scale = 2
        /\ Len(geom) = 2 /\ geom[1].kind = "wire" /\ geom[2].kind = "hole"
        /\ Len(FragmentsOf(c)) = 2
        /\ GeometryBoundingBox(geom)[1][1] < 0

====
